---- MODULE Spec2Model ----
(***************************************************************************)
(* Deployment manager of Samples/Module03-Projects-and-Workflows:          *)
(* TrafficRouter, HealthChecker, BlueGreenDeploymentManager and            *)
(* CanaryReleaseManager, as asyncio coroutines sharing one event loop.     *)
(*                                                                         *)
(* A coroutine runs without interruption until it reaches a real           *)
(* suspension point (asyncio.sleep).  An "await" of a coroutine that never *)
(* sleeps (update_traffic_split, rollback_deployment, ...) does not yield  *)
(* to the event loop, so each action below is the stretch of code between  *)
(* two consecutive sleeps of one task.                                     *)
(*                                                                         *)
(* The calls that stand in for external collaborators (Azure provisioning, *)
(* the health probes, the live health metrics of a traffic shift and the   *)
(* per-version metrics) deliver values drawn from small input sets; the    *)
(* thresholds applied to them are those of the code.                       *)
(*                                                                         *)
(* _monitor_traffic_shift reads error_rate = 0.02 and avg_response_time =  *)
(* 1200 from literals that simulate the live metrics; here they are inputs *)
(* (ErrorRates in percent, ResponseTimes in ms), so the unhealthy branch   *)
(* of the shift is exercised.  The canary metrics are the code's formulas  *)
(* of hash(version) % 100, kept as exact fractions; for the thresholds     *)
(* used here the comparisons agree with the code's double arithmetic for   *)
(* every pair of hash values.  Timers fire on time: the clock of a canary  *)
(* run advances only when no monitoring task is ready.                     *)
(***************************************************************************)
EXTENDS Integers, Sequences, FiniteSets, TLC

(***************************************************************************)
(* Bounds and input sets                                                   *)
(***************************************************************************)
MaxTime == 4            \* the clock (whole seconds of utcnow) runs 0..MaxTime
MaxDeployments == 2     \* ModelDeployment objects created by concurrent callers
MaxSeqTime == 6         \* the same two bounds for a single caller
MaxSeqDeployments == 3

MaxCanaryTicks == 6     \* the clock of a canary run, in steps of the loop's sleep
MaxRequests == 3        \* requests routed in one run
MaxRetriesLimit == 4    \* config.max_retries is within this of zero

Models == {"m1"}
Versions == {"v1"}

\* the callers of start_canary_release, one release each
CanaryCallers == {1, 2}

\* success criteria; a threshold t stands for t / 10000
NoCriteria == <<>>
OneCriterion == <<[criterion |-> "error_rate", threshold |-> 500]>>
FourCriteria ==
    <<[criterion |-> "error_rate", threshold |-> 500],
      [criterion |-> "response_time", threshold |-> 1000],
      [criterion |-> "user_satisfaction", threshold |-> 200],
      [criterion |-> "throughput", threshold |-> 50]>>

Config(target, criteria, duration, auto_promote) ==
    [model_name |-> "m1", canary_version |-> "v2", baseline_version |-> "v1",
     canary_traffic_percentage |-> target, success_criteria |-> criteria,
     rollout_duration_minutes |-> duration,
     evaluation_interval_minutes |-> 1, auto_promote |-> auto_promote]

\* the CanaryConfiguration objects handed to start_canary_release
CanaryConfiguration ==
    {Config(100, OneCriterion, 3, TRUE),
     Config(7, OneCriterion, 1, FALSE),
     Config(3, FourCriteria, 3, TRUE),
     Config(-10, FourCriteria, 1, FALSE),
     Config(50, NoCriteria, 1, TRUE)}

\* hash(version) % 100 of the versions, fixed for the life of the process
HashSeeds ==
    {("v1" :> 0) @@ ("v2" :> 0),
     ("v1" :> 0) @@ ("v2" :> 1),
     ("v1" :> 0) @@ ("v2" :> 30)}

\* traffic splits handed to update_traffic_split by a direct caller
SplitInputs ==
    {<<[variant |-> "a", weight |-> 70], [variant |-> "b", weight |-> 30]>>,
     <<[variant |-> "b", weight |-> 0], [variant |-> "c", weight |-> 100]>>,
     <<[variant |-> "a", weight |-> 60], [variant |-> "b", weight |-> 30]>>,
     <<[variant |-> "a", weight |-> 120], [variant |-> "b", weight |-> -20]>>}
\* two services with the version each deploys: both names written with a
\* dash give "gpt-4-turbo"
ServiceReleases == {<<"gpt", "4-turbo">>, <<"gpt-4", "turbo">>}
Services == {r[1] : r \in ServiceReleases}
Tasks == {1, 2}         \* concurrent callers of deploy_new_version

\* live health metrics delivered to _monitor_traffic_shift:
\* error rate in percent, mean response time in ms
ErrorRates == {2, 6}
ResponseTimes == {1200, 6000}

\* what one validation rule can do, and the runs of the four rules that
\* deploy_new_version is exercised with
RuleOutcomes == {"passed", "failed", "raised"}
\* deployment ids handed to a direct validate_deployment call
ValidatedDeployments ==
    {<<"m1", "v1", "blue", 0>>, <<"m1", "v1", "green", 0>>}
ValidationRuns ==
    {<<"passed", "passed", "passed", "passed">>,
     <<"passed", "failed", "passed", "passed">>,
     <<"passed", "passed", "raised", "passed">>,
     <<"failed", "passed", "passed", "raised">>}

(***************************************************************************)
(* Program constants                                                       *)
(***************************************************************************)
BLUE == "blue"
GREEN == "green"
DeploymentSlot == {BLUE, GREEN}

INACTIVE == "inactive"
STAGING == "staging"
ACTIVE == "active"
TRANSITIONING == "transitioning"
FAILED == "failed"
DeploymentStatus == {INACTIVE, STAGING, ACTIVE, TRANSITIONING, FAILED}

traffic_steps == <<10, 25, 50, 75, 100>>
ErrorRateThreshold == 5         \* error_rate > 0.05
ResponseTimeThreshold == 5000   \* avg_response_time > 5000
DeploySleep == 2                \* _deploy_to_azure: await asyncio.sleep(2)

RUNNING == "running"
COMPLETED == "completed"
ABORTED == "aborted"
PAUSED == "paused"
CanaryStatus == {RUNNING, COMPLETED, ABORTED, PAUSED}

InitialCanaryTraffic == 5       \* min(config.canary_traffic_percentage, 5)
SleepCap == 30                  \* sleep(min(30, evaluation_interval seconds))
SecondsPerMinute == 60          \* timedelta(minutes=...)
DefaultMaxRetries == 3          \* AzureAIFoundryConfig.max_retries: int = 3
RetryDelay == 1                 \* AzureAIFoundryConfig.retry_delay: float = 1.0

validation_rules ==
    <<"endpoint_connectivity", "model_response_validation",
      "performance_validation", "api_compatibility">>

VARIABLES
    now,              \* int(datetime.utcnow().timestamp())
    routing_rules,    \* TrafficRouter.routing_rules: model -> split
    request_counts,   \* TrafficRouter.request_counts: model -> variant -> count
    heap,             \* every ModelDeployment object that was registered
    deployments,      \* BlueGreenDeploymentManager.deployments, in key order:
                      \*   the heap indices of the dict's values
    active_slots,     \* BlueGreenDeploymentManager.active_slots
    tasks,            \* the deploy_new_version coroutines
    version_hash,     \* hash(version) % 100, by version
    canary_heap,      \* every canary_info dict that was created
    active_canaries,  \* CanaryReleaseManager.active_canaries: id -> index of
                      \*   its canary_info in canary_heap
    canary_results,   \* CanaryReleaseManager.canary_results
    loops,            \* the _monitor_canary_release tasks
    last_return,      \* the result dict returned by the step just taken
                      \*   (op "none" when that step returned nothing)
    request           \* the chat client's _make_completion_request coroutine

routerVars == <<routing_rules, request_counts>>
bgVars == <<heap, deployments, active_slots, tasks>>
canaryVars == <<version_hash, canary_heap, active_canaries, canary_results,
                loops>>
chatVars == <<request>>
vars == <<now, routing_rules, request_counts, heap, deployments, active_slots,
          tasks, last_return, version_hash, canary_heap, active_canaries,
          canary_results, loops, request>>

(***************************************************************************)
(* Python dicts: functions whose domain is the set of keys                 *)
(***************************************************************************)
EmptyDict == <<>>
Put(d, k, v) == (k :> v) @@ d
Get(d, k, default) == IF k \in DOMAIN d THEN d[k] ELSE default

Min(S) == CHOOSE x \in S : \A y \in S : x <= y
Max2(a, b) == IF a >= b THEN a ELSE b

\* a dict literal {k1: w1, k2: w2}, in insertion order
Split(k1, w1, k2, w2) ==
    IF k1 = k2
    THEN <<[variant |-> k1, weight |-> w2]>>
    ELSE <<[variant |-> k1, weight |-> w1], [variant |-> k2, weight |-> w2]>>

Variants(split) == {split[i].variant : i \in DOMAIN split}

(***************************************************************************)
(* TrafficRouter                                                           *)
(***************************************************************************)
\* update_traffic_split: the new routing_rules
UpdatedRules(rr, model_name, traffic_split) == Put(rr, model_name, traffic_split)

\* update_traffic_split seen after line 318 and before its counters are
\* initialized: the split is stored, the counters are the old ones
CountsNotInitialized(rc, model_name, traffic_split) == rc

\* update_traffic_split starting the counters of the service afresh
CountsReset(rc, model_name, traffic_split) ==
    Put(rc, model_name, [v \in Variants(traffic_split) |-> 0])

\* update_traffic_split: the new request_counts
UpdatedCounts(rc, model_name, traffic_split) ==
    LET old == Get(rc, model_name, EmptyDict)
        new == [v \in (DOMAIN old) \cup Variants(traffic_split) |->
                    IF v \in DOMAIN old THEN old[v] ELSE 0]
    IN  Put(rc, model_name, new)

(***************************************************************************)
(* HealthChecker.validate_deployment                                       *)
(***************************************************************************)
\* the rules run until the first one that fails or raises
RECURSIVE RunRulesUntilFailure(_, _, _)
RunRulesUntilFailure(outcomes, i, result) ==
    IF i > Len(validation_rules) \/ ~result.passed THEN result
    ELSE LET name == validation_rules[i]
             next ==
                 IF outcomes[i] = "raised"
                 THEN [result EXCEPT !.passed = FALSE,
                                     !.errors = Append(@, "Validation rule failed")]
                 ELSE IF outcomes[i] = "failed"
                 THEN [result EXCEPT !.checks = Append(@, name),
                                     !.passed = FALSE,
                                     !.errors = Append(@, name)]
                 ELSE [result EXCEPT !.checks = Append(@, name)]
         IN  RunRulesUntilFailure(outcomes, i + 1, next)

RECURSIVE RunRules(_, _, _)
RunRules(outcomes, i, result) ==
    IF i > Len(validation_rules) THEN result
    ELSE LET name == validation_rules[i]
             next ==
                 IF outcomes[i] = "raised"
                 THEN [result EXCEPT !.passed = FALSE,
                                     !.errors = Append(@, "Validation rule failed")]
                 ELSE IF outcomes[i] = "failed"
                 THEN [result EXCEPT !.checks = Append(@, name),
                                     !.passed = FALSE,
                                     !.errors = Append(@, name)]
                 ELSE [result EXCEPT !.checks = Append(@, name)]
         IN  RunRules(outcomes, i + 1, next)

validate_deployment(outcomes) ==
    RunRules(outcomes, 1, [passed |-> TRUE, checks |-> <<>>, errors |-> <<>>])

\* await health_checker.validate_deployment(deployment) called directly, the
\* four rules ending as outcomes tells
validate_deployment_call(deployment_id, outcomes) ==
    /\ last_return' =
           [op |-> "validate_deployment", deployment_id |-> deployment_id,
            outcomes |-> outcomes,
            validation_result |-> validate_deployment(outcomes)]
    /\ UNCHANGED <<chatVars, now, routerVars, bgVars, canaryVars>>

(***************************************************************************)
(* BlueGreenDeploymentManager                                              *)
(***************************************************************************)
\* a name cut at its dashes; a name without a dash is one piece
Pieces(name) ==
    CASE name = "gpt-4" -> <<"gpt", "4">>
      [] name = "4-turbo" -> <<"4", "turbo">>
      [] OTHER -> <<name>>

\* f"{a}-{b}": two such strings are equal exactly when their pieces are
Dashed(a, b) == Pieces(a) \o Pieces(b)

\* line 389: f"{model_name}-{model_version}-{new_slot.value}-{int(timestamp)}"
DeploymentId(model_name, model_version, new_slot, timestamp) ==
    Dashed(model_name, model_version) \o <<new_slot, timestamp>>

\* the timestamp a deployment id ends with
IdTimestamp(deployment_id) == deployment_id[Len(deployment_id)]

_get_opposite_slot(slot) == IF slot = BLUE THEN GREEN ELSE BLUE

\* the values of self.deployments, as a set of heap indices
Registered(deps) == {deps[i] : i \in DOMAIN deps}

\* position of a key in self.deployments, 0 when absent
KeyPos(h, deps, deployment_id) ==
    LET ps == {i \in DOMAIN deps : h[deps[i]].deployment_id = deployment_id}
    IN  IF ps = {} THEN 0 ELSE Min(ps)

\* self.deployments[deployment_id] = deployment, the object being heap[obj]
Register(h, deps, deployment_id, obj) ==
    LET p == KeyPos(h, deps, deployment_id)
    IN  IF p = 0 THEN Append(deps, obj) ELSE [deps EXCEPT ![p] = obj]

\* _monitor_traffic_shift
_monitor_traffic_shift(error_rate, avg_response_time) ==
    ~(error_rate > ErrorRateThreshold) /\ ~(avg_response_time > ResponseTimeThreshold)

\* one step of _gradual_traffic_shift: the split it applies
ShiftSplit(new_slot, step) ==
    Split(new_slot, traffic_steps[step],
          _get_opposite_slot(new_slot), 100 - traffic_steps[step])

\* _complete_blue_green_switch leaving the status of the old slot's
\* deployments as it was
switch_keeping_old_status(model_name, new_active_slot, h, deps, a, rr, rc) ==
    LET has_old == model_name \in DOMAIN a
        old_slot == IF has_old THEN a[model_name] ELSE "none"
        split == Split(new_active_slot, 100, _get_opposite_slot(new_active_slot), 0)
    IN  [active_slots |-> Put(a, model_name, new_active_slot),
         routing_rules |-> UpdatedRules(rr, model_name, split),
         request_counts |-> UpdatedCounts(rc, model_name, split),
         heap |-> [k \in DOMAIN h |->
                     IF /\ has_old
                        /\ k \in Registered(deps)
                        /\ h[k].model_name = model_name
                        /\ h[k].slot = old_slot
                     THEN [h[k] EXCEPT !.traffic_percentage = 0]
                     ELSE h[k]]]

\* _complete_blue_green_switch on the state (h, deps, a, rr, rc)
_complete_blue_green_switch(model_name, new_active_slot, h, deps, a, rr, rc) ==
    LET has_old == model_name \in DOMAIN a
        old_slot == IF has_old THEN a[model_name] ELSE "none"
        split == Split(new_active_slot, 100, _get_opposite_slot(new_active_slot), 0)
    IN  [active_slots |-> Put(a, model_name, new_active_slot),
         routing_rules |-> UpdatedRules(rr, model_name, split),
         request_counts |-> UpdatedCounts(rc, model_name, split),
         heap |-> [k \in DOMAIN h |->
                     IF /\ has_old
                        /\ k \in Registered(deps)
                        /\ h[k].model_name = model_name
                        /\ h[k].slot = old_slot
                     THEN [h[k] EXCEPT !.status = INACTIVE,
                                       !.traffic_percentage = 0]
                     ELSE h[k]]]

\* rollback_deployment leaving the active-slot pointer where it was
rollback_keeping_pointer(model_name, h, deps, a, rr, rc) ==
    LET unchanged(err) ==
            [success |-> FALSE, error |-> err, rolled_back_to |-> 0,
             heap |-> h, active_slots |-> a,
             routing_rules |-> rr, request_counts |-> rc]
    IN
    IF model_name \notin DOMAIN a
    THEN unchanged("No active deployment found")
    ELSE
    LET current_slot == a[model_name]
        previous_slot == _get_opposite_slot(current_slot)
        found == {i \in DOMAIN deps :
                     /\ h[deps[i]].model_name = model_name
                     /\ h[deps[i]].slot = previous_slot
                     /\ h[deps[i]].status = INACTIVE}
    IN
    IF found = {}
    THEN unchanged("No previous deployment found for rollback")
    ELSE
    LET previous_deployment == deps[Min(found)]
        split == Split(previous_slot, 100, current_slot, 0)
        h1 == [h EXCEPT ![previous_deployment].status = ACTIVE,
                        ![previous_deployment].traffic_percentage = 100]
        h2 == [k \in DOMAIN h1 |->
                 IF /\ k \in Registered(deps)
                    /\ h1[k].model_name = model_name
                    /\ h1[k].slot = current_slot
                 THEN [h1[k] EXCEPT !.status = INACTIVE,
                                    !.traffic_percentage = 0]
                 ELSE h1[k]]
    IN  [success |-> TRUE, error |-> "", rolled_back_to |-> previous_deployment,
         heap |-> h2,
         active_slots |-> a,
         routing_rules |-> UpdatedRules(rr, model_name, split),
         request_counts |-> UpdatedCounts(rc, model_name, split)]

\* rollback_deployment switching the traffic before it looks for the
\* previous deployment
rollback_switching_first(model_name, h, deps, a, rr, rc) ==
    LET unchanged(err) ==
            [success |-> FALSE, error |-> err, rolled_back_to |-> 0,
             heap |-> h, active_slots |-> a,
             routing_rules |-> rr, request_counts |-> rc]
    IN
    IF model_name \notin DOMAIN a
    THEN unchanged("No active deployment found")
    ELSE
    LET current_slot == a[model_name]
        previous_slot == _get_opposite_slot(current_slot)
        found == {i \in DOMAIN deps :
                     /\ h[deps[i]].model_name = model_name
                     /\ h[deps[i]].slot = previous_slot
                     /\ h[deps[i]].status = INACTIVE}
        split == Split(previous_slot, 100, current_slot, 0)
    IN
    IF found = {}
    THEN [unchanged("No previous deployment found for rollback") EXCEPT
             !.routing_rules = UpdatedRules(rr, model_name, split),
             !.request_counts = UpdatedCounts(rc, model_name, split)]
    ELSE
    LET previous_deployment == deps[Min(found)]
        h1 == [h EXCEPT ![previous_deployment].status = ACTIVE,
                        ![previous_deployment].traffic_percentage = 100]
        h2 == [k \in DOMAIN h1 |->
                 IF /\ k \in Registered(deps)
                    /\ h1[k].model_name = model_name
                    /\ h1[k].slot = current_slot
                 THEN [h1[k] EXCEPT !.status = INACTIVE,
                                    !.traffic_percentage = 0]
                 ELSE h1[k]]
    IN  [success |-> TRUE, error |-> "", rolled_back_to |-> previous_deployment,
         heap |-> h2,
         active_slots |-> Put(a, model_name, previous_slot),
         routing_rules |-> UpdatedRules(rr, model_name, split),
         request_counts |-> UpdatedCounts(rc, model_name, split)]

\* rollback_deployment on the state (h, deps, a, rr, rc)
rollback_deployment(model_name, h, deps, a, rr, rc) ==
    LET unchanged(err) ==
            [success |-> FALSE, error |-> err, rolled_back_to |-> 0,
             heap |-> h, active_slots |-> a,
             routing_rules |-> rr, request_counts |-> rc]
    IN
    IF model_name \notin DOMAIN a
    THEN unchanged("No active deployment found")
    ELSE
    LET current_slot == a[model_name]
        previous_slot == _get_opposite_slot(current_slot)
        found == {i \in DOMAIN deps :
                     /\ h[deps[i]].model_name = model_name
                     /\ h[deps[i]].slot = previous_slot
                     /\ h[deps[i]].status = INACTIVE}
    IN
    IF found = {}
    THEN unchanged("No previous deployment found for rollback")
    ELSE
    LET previous_deployment == deps[Min(found)]
        split == Split(previous_slot, 100, current_slot, 0)
        h1 == [h EXCEPT ![previous_deployment].status = ACTIVE,
                        ![previous_deployment].traffic_percentage = 100]
        h2 == [k \in DOMAIN h1 |->
                 IF /\ k \in Registered(deps)
                    /\ h1[k].model_name = model_name
                    /\ h1[k].slot = current_slot
                 THEN [h1[k] EXCEPT !.status = INACTIVE,
                                    !.traffic_percentage = 0]
                 ELSE h1[k]]
    IN  [success |-> TRUE, error |-> "", rolled_back_to |-> previous_deployment,
         heap |-> h2,
         active_slots |-> Put(a, model_name, previous_slot),
         routing_rules |-> UpdatedRules(rr, model_name, split),
         request_counts |-> UpdatedCounts(rc, model_name, split)]

(***************************************************************************)
(* deploy_new_version, one action per stretch between two sleeps           *)
(***************************************************************************)
IdleTask ==
    [pc |-> "idle", model_name |-> "", model_version |-> "", new_slot |-> "",
     deployment_id |-> <<>>, deployment |-> 0, step |-> 0, error |-> "",
     pre_active |-> "none", pre_split |-> <<>>, pre_deployment |-> 0]

InFlight(t) == tasks[t].pc # "idle"

\* no call returned in this step
NoReturn ==
    [op |-> "none", model_name |-> "", result |-> "none", deployment |-> 0,
     new_slot |-> "", pre_active |-> "none", pre_split |-> <<>>,
     pre_deployment |-> 0]

\* the registered deployment of the model that is ACTIVE (0 when none is)
ActiveDeployment(model_name) ==
    LET act == {i \in DOMAIN deployments :
                   /\ heap[deployments[i]].model_name = model_name
                   /\ heap[deployments[i]].status = ACTIVE}
    IN  IF act = {} THEN 0 ELSE deployments[Min(act)]

\* the result dict of a deploy_new_version call, with the call's context
DeployReturn(t, result) ==
    [op |-> "deploy", model_name |-> tasks[t].model_name, result |-> result,
     deployment |-> tasks[t].deployment, new_slot |-> tasks[t].new_slot,
     pre_active |-> tasks[t].pre_active, pre_split |-> tasks[t].pre_split,
     pre_deployment |-> tasks[t].pre_deployment]

\* lines 380-407: slot selection, deployment id, the ModelDeployment object;
\* suspends in _deploy_to_azure
deploy_begin(t, model_name, model_version, limit) ==
    /\ ~InFlight(t)
    /\ \A u \in Tasks : u < t => InFlight(u)   \* callers are interchangeable
    /\ Len(heap) + Cardinality({u \in Tasks : tasks[u].pc = "deploying"})
           < limit
    /\ LET current_active_slot == Get(active_slots, model_name, BLUE)
           new_slot == IF current_active_slot = BLUE THEN GREEN ELSE BLUE
       IN  tasks' = [tasks EXCEPT ![t] =
               [IdleTask EXCEPT
                   !.pc = "deploying",
                   !.model_name = model_name,
                   !.model_version = model_version,
                   !.new_slot = new_slot,
                   !.deployment_id =
                       DeploymentId(model_name, model_version, new_slot, now),
                   !.pre_active = Get(active_slots, model_name, "none"),
                   !.pre_split = Get(routing_rules, model_name, <<>>),
                   !.pre_deployment = ActiveDeployment(model_name)]]
    /\ last_return' = NoReturn
    /\ UNCHANGED <<chatVars, now, routerVars, heap, deployments, active_slots, canaryVars>>

\* lines 407-412: _deploy_to_azure returns, at least DeploySleep seconds
\* after the call; the deployment is registered and validation starts (it
\* suspends in its first rule)
deploy_provisioned(t, time_limit) ==
    /\ tasks[t].pc = "deploying"
    /\ IdTimestamp(tasks[t].deployment_id) + DeploySleep <= time_limit
    /\ now' = Max2(now, IdTimestamp(tasks[t].deployment_id) + DeploySleep)
    /\ LET obj == [deployment_id |-> tasks[t].deployment_id,
                   model_name |-> tasks[t].model_name,
                   model_version |-> tasks[t].model_version,
                   slot |-> tasks[t].new_slot,
                   status |-> STAGING,
                   traffic_percentage |-> 0]
       IN  /\ heap' = Append(heap, obj)
           /\ deployments' = Register(heap, deployments, obj.deployment_id,
                                      Len(heap) + 1)
           /\ tasks' = [tasks EXCEPT ![t].pc = "validating",
                                     ![t].deployment = Len(heap) + 1]
    /\ last_return' = NoReturn
    /\ UNCHANGED <<chatVars, routerVars, active_slots, canaryVars>>

\* lines 407, 448-457: _deploy_to_azure raises; the handler looks the id up
deploy_provision_raised(t) ==
    /\ tasks[t].pc = "deploying"
    /\ LET p == KeyPos(heap, deployments, tasks[t].deployment_id)
       IN  IF p # 0
           THEN /\ heap' = [heap EXCEPT ![deployments[p]].status = FAILED]
                /\ tasks' = [tasks EXCEPT ![t].pc = "cleanup",
                                          ![t].error = "Deployment failed"]
                /\ last_return' = NoReturn
           ELSE /\ heap' = heap
                /\ tasks' = [tasks EXCEPT ![t] = IdleTask]
                /\ last_return' = DeployReturn(t, "Deployment failed")
    /\ UNCHANGED <<chatVars, now, routerVars, deployments, active_slots, canaryVars>>

\* deploy_validated with the first shift step applied before the report is
\* looked at
deploy_validated_after_shift(t, outcomes) ==
    /\ tasks[t].pc = "validating"
    /\ LET validation_result == validate_deployment(outcomes)
           d == tasks[t].deployment
           split == ShiftSplit(tasks[t].new_slot, 1)
       IN  /\ routing_rules' =
                  UpdatedRules(routing_rules, tasks[t].model_name, split)
           /\ request_counts' =
                  UpdatedCounts(request_counts, tasks[t].model_name, split)
           /\ IF ~validation_result.passed
              THEN /\ heap' = [heap EXCEPT ![d].status = FAILED]
                   /\ tasks' = [tasks EXCEPT
                          ![t].pc = "cleanup",
                          ![t].error = "Deployment validation failed"]
              ELSE /\ tasks' = [tasks EXCEPT ![t].pc = "shifting",
                                             ![t].step = 1]
                   /\ heap' = heap
    /\ last_return' = NoReturn
    /\ UNCHANGED <<chatVars, now, deployments, active_slots, canaryVars>>

\* lines 412-425 and 470-485: the validation report arrives; on failure the
\* deployment is marked and cleanup starts, otherwise the first shift step
\* is applied and the task sleeps
deploy_validated(t, outcomes) ==
    /\ tasks[t].pc = "validating"
    /\ LET validation_result == validate_deployment(outcomes)
           d == tasks[t].deployment
           split == ShiftSplit(tasks[t].new_slot, 1)
       IN  IF ~validation_result.passed
           THEN /\ heap' = [heap EXCEPT ![d].status = FAILED]
                /\ tasks' = [tasks EXCEPT
                       ![t].pc = "cleanup",
                       ![t].error = "Deployment validation failed"]
                /\ UNCHANGED routerVars
           ELSE /\ routing_rules' =
                       UpdatedRules(routing_rules, tasks[t].model_name, split)
                /\ request_counts' =
                       UpdatedCounts(request_counts, tasks[t].model_name, split)
                /\ tasks' = [tasks EXCEPT ![t].pc = "shifting", ![t].step = 1]
                /\ heap' = heap
    /\ last_return' = NoReturn
    /\ UNCHANGED <<chatVars, now, deployments, active_slots, canaryVars>>

\* lines 416-421, 452-457: _cleanup_failed_deployment returns, failure result
deploy_cleaned(t) ==
    /\ tasks[t].pc = "cleanup"
    /\ tasks' = [tasks EXCEPT ![t] = IdleTask]
    /\ last_return' = DeployReturn(t, tasks[t].error)
    /\ UNCHANGED <<chatVars, now, routerVars, heap, deployments, active_slots, canaryVars>>

\* lines 485-496, 427-446: the sleep of a shift step ends and the step is
\* monitored; unhealthy: mark failed, roll back, return; healthy: apply the
\* next step and sleep, or after the last step complete the switch
deploy_monitored(t, error_rate, avg_response_time) ==
    /\ tasks[t].pc = "shifting"
    /\ LET m == tasks[t].model_name
           d == tasks[t].deployment
           healthy == _monitor_traffic_shift(error_rate, avg_response_time)
       IN  IF ~healthy
           THEN LET rb == rollback_deployment(m,
                              [heap EXCEPT ![d].status = FAILED], deployments,
                              active_slots, routing_rules, request_counts)
                IN  /\ heap' = rb.heap
                    /\ active_slots' = rb.active_slots
                    /\ routing_rules' = rb.routing_rules
                    /\ request_counts' = rb.request_counts
                    /\ tasks' = [tasks EXCEPT ![t] = IdleTask]
                    /\ last_return' = DeployReturn(t, "Traffic shift failed")
           ELSE IF tasks[t].step < Len(traffic_steps)
           THEN LET split == ShiftSplit(tasks[t].new_slot, tasks[t].step + 1)
                IN  /\ routing_rules' = UpdatedRules(routing_rules, m, split)
                    /\ request_counts' = UpdatedCounts(request_counts, m, split)
                    /\ tasks' = [tasks EXCEPT ![t].step = @ + 1]
                    /\ last_return' = NoReturn
                    /\ UNCHANGED <<heap, active_slots>>
           ELSE LET sw == _complete_blue_green_switch(m, tasks[t].new_slot,
                              heap, deployments, active_slots,
                              routing_rules, request_counts)
                IN  /\ heap' = [sw.heap EXCEPT ![d].status = ACTIVE]
                    /\ active_slots' = sw.active_slots
                    /\ routing_rules' = sw.routing_rules
                    /\ request_counts' = sw.request_counts
                    /\ tasks' = [tasks EXCEPT ![t] = IdleTask]
                    /\ last_return' = DeployReturn(t, "success")
    /\ UNCHANGED <<chatVars, now, deployments, canaryVars>>

\* a direct rollback_deployment call (it never sleeps); callers in T are
\* those that await their deploy_new_version call before calling again
rollback_call(model_name, T) ==
    /\ \A t \in T : ~InFlight(t)
    /\ LET rb == rollback_deployment(model_name, heap, deployments,
                                     active_slots, routing_rules, request_counts)
       IN  /\ heap' = rb.heap
           /\ active_slots' = rb.active_slots
           /\ routing_rules' = rb.routing_rules
           /\ request_counts' = rb.request_counts
           /\ last_return' =
                  [op |-> "rollback", model_name |-> model_name,
                   result |-> IF rb.success THEN "success" ELSE rb.error,
                   deployment |-> rb.rolled_back_to,
                   new_slot |-> IF rb.success THEN rb.active_slots[model_name]
                                ELSE "",
                   pre_active |-> Get(active_slots, model_name, "none"),
                   pre_split |-> Get(routing_rules, model_name, <<>>),
                   pre_deployment |-> ActiveDeployment(model_name),
                   after_success |->
                       /\ last_return.op = "deploy"
                       /\ last_return.result = "success"
                       /\ last_return.model_name = model_name]
    /\ UNCHANGED <<chatVars, now, deployments, tasks, canaryVars>>

\* a second of wall-clock time passes
Tick(time_limit) ==
    /\ now < time_limit
    /\ now' = now + 1
    /\ last_return' = NoReturn
    /\ UNCHANGED <<chatVars, routerVars, heap, deployments, active_slots, tasks,
                   canaryVars>>

----------------------------------------------------------------------------
\* TrafficRouter, called directly

\* the result of a router call, with the router's state before the call
RouterReturn(op, model_name, traffic_split, raised, variant) ==
    [op |-> op, model_name |-> model_name, traffic_split |-> traffic_split,
     raised |-> raised, variant |-> variant,
     pre_rules |-> routing_rules, pre_counts |-> request_counts]

\* all the counted requests of the router
RECURSIVE SumCounts(_)
SumCounts(counts) ==
    IF DOMAIN counts = {} THEN 0
    ELSE LET k == CHOOSE x \in DOMAIN counts : TRUE
         IN  counts[k] + SumCounts([x \in DOMAIN counts \ {k} |-> counts[x]])

TotalRequests ==
    SumCounts([m \in DOMAIN request_counts |-> SumCounts(request_counts[m])])

\* await traffic_router.update_traffic_split(model_name, traffic_split)
update_traffic_split(model_name, traffic_split) ==
    /\ routing_rules' = UpdatedRules(routing_rules, model_name, traffic_split)
    /\ request_counts' = UpdatedCounts(request_counts, model_name, traffic_split)
    /\ last_return' = RouterReturn("update_traffic_split", model_name,
                                   traffic_split, FALSE, "")
    /\ UNCHANGED <<chatVars, now, bgVars, canaryVars>>

\* the variant route_request picks for the draw random_value, 0 when the
\* loop over the split runs out
RECURSIVE PickVariant(_, _, _, _)
PickVariant(routing_rule, i, cumulative_weight, random_value) ==
    IF i > Len(routing_rule) THEN 0
    ELSE IF random_value <= cumulative_weight + routing_rule[i].weight THEN i
    ELSE PickVariant(routing_rule, i + 1,
                     cumulative_weight + routing_rule[i].weight, random_value)

\* what route_request returned for the draw random_value, with the router's
\* state before the call
RouteReturn(model_name, random_value, variant) ==
    [op |-> "route_request", model_name |-> model_name,
     random_value |-> random_value, variant |-> variant,
     pre_rules |-> routing_rules, pre_counts |-> request_counts]

\* traffic_router.route_request(model_name), random.randint(1, 100) having
\* drawn random_value
route_request(model_name, random_value) ==
    LET routing_rule == Get(routing_rules, model_name, <<>>)
        i == PickVariant(routing_rule, 1, 0, random_value)
    IN  /\ TotalRequests < MaxRequests
        /\ IF routing_rule = <<>>
           THEN /\ last_return' = RouteReturn(model_name, random_value,
                                              "default")
                /\ UNCHANGED request_counts
           ELSE IF i = 0
           THEN /\ last_return' = RouteReturn(model_name, random_value,
                                              routing_rule[1].variant)
                /\ UNCHANGED request_counts
           ELSE /\ request_counts' =
                       [request_counts EXCEPT
                           ![model_name][routing_rule[i].variant] = @ + 1]
                /\ last_return' = RouteReturn(model_name, random_value,
                                              routing_rule[i].variant)
        /\ UNCHANGED <<chatVars, now, routing_rules, bgVars, canaryVars>>

\* traffic_router.get_traffic_stats(model_name): {} for a service without
\* counters, only the total when nothing was counted, else the total and
\* per variant its count and its percentage count / total * 100, kept as the
\* fraction <<count * 100, total>>
get_traffic_stats(model_name) ==
    IF model_name \notin DOMAIN request_counts THEN EmptyDict
    ELSE LET counts == request_counts[model_name]
             total_requests == SumCounts(counts)
         IN  IF total_requests = 0 THEN [total_requests |-> 0]
             ELSE [total_requests |-> total_requests,
                   distribution |->
                       [variant \in DOMAIN counts |->
                           [requests |-> counts[variant],
                            percentage |->
                                <<counts[variant] * 100, total_requests>>]]]

get_traffic_stats_call(model_name) ==
    /\ last_return' = [op |-> "get_traffic_stats", model_name |-> model_name,
                       stats |-> get_traffic_stats(model_name)]
    /\ UNCHANGED <<chatVars, now, routerVars, bgVars, canaryVars>>

----------------------------------------------------------------------------
\* CanaryReleaseManager

Abs(x) == IF x < 0 THEN -x ELSE x

\* _get_version_metrics for a version whose hash(version) % 100 is k, each
\* metric as the fraction <<numerator, denominator>>
_get_version_metrics(k) ==
    [error_rate |-> <<20 + k, 1000>>,
     response_time |-> <<6000 + k, 5>>,
     user_satisfaction |-> <<8500 + k, 10000>>,
     throughput |-> <<10000 - k, 100>>]

\* the criteria with the lower-is-better ones passing only strictly below
\* the bound
CriterionPassedStrictly(criterion, threshold, canary_k, baseline_k) ==
    CASE criterion = "error_rate" ->
            (20 + canary_k) * 10000
                < (20 + baseline_k) * (10000 + threshold)
      [] criterion = "response_time" ->
            (6000 + canary_k) * 10000
                < (6000 + baseline_k) * (10000 + threshold)
      [] criterion = "user_satisfaction" ->
            (8500 + canary_k) * 10000
                >= (8500 + baseline_k) * (10000 - threshold)
      [] OTHER ->
            Abs(canary_k - baseline_k) * 10000 <= 100 * threshold

\* one criterion of _evaluate_canary_performance; the metrics of
\* _get_version_metrics for version factor k / 1000 are the fractions
\*   error_rate (20 + k) / 1000        response_time (6000 + k) / 5
\*   user_satisfaction (8500 + k) / 10000    throughput (10000 - k) / 100
\* and each comparison is multiplied out to integers
CriterionPassed(criterion, threshold, canary_k, baseline_k) ==
    CASE criterion = "error_rate" ->
            (20 + canary_k) * 10000
                <= (20 + baseline_k) * (10000 + threshold)
      [] criterion = "response_time" ->
            (6000 + canary_k) * 10000
                <= (6000 + baseline_k) * (10000 + threshold)
      [] criterion = "user_satisfaction" ->
            (8500 + canary_k) * 10000
                >= (8500 + baseline_k) * (10000 - threshold)
      [] OTHER ->
            Abs(canary_k - baseline_k) * 10000 <= 100 * threshold

\* the decision with no band between abort and proceed
DecisionWithoutHold(passed_criteria, total_criteria) ==
    IF 10 * passed_criteria < 7 * total_criteria THEN "abort" ELSE "proceed"

\* success_rate < 0.7 aborts, >= 0.9 proceeds, anything else holds
Decision(passed_criteria, total_criteria) ==
    IF 10 * passed_criteria < 7 * total_criteria THEN "abort"
    ELSE IF 10 * passed_criteria >= 9 * total_criteria THEN "proceed"
    ELSE "hold"

\* the evaluation of a configuration with at least one criterion
_evaluate_canary_performance(config) ==
    LET criteria == config.success_criteria
        criteria_results ==
            [i \in DOMAIN criteria |->
                CriterionPassed(criteria[i].criterion, criteria[i].threshold,
                                version_hash[config.canary_version],
                                version_hash[config.baseline_version])]
        total_criteria == Len(criteria)
        passed_criteria ==
            Cardinality({i \in DOMAIN criteria : criteria_results[i]})
    IN  [timestamp |-> now, criteria_results |-> criteria_results,
         passed_criteria |-> passed_criteria,
         total_criteria |-> total_criteria,
         decision |-> Decision(passed_criteria, total_criteria)]

\* _calculate_next_traffic_percentage answering the target once the current
\* percentage is not below it
NextOrTarget(current_percentage, target) ==
    IF current_percentage < 5 THEN 5
    ELSE IF current_percentage < 10 THEN 10
    ELSE IF current_percentage < 25 THEN 25
    ELSE IF current_percentage < 50 THEN 50
    ELSE IF current_percentage < target
         THEN Min({target, current_percentage + 25})
    ELSE target

_calculate_next_traffic_percentage(current_percentage, target) ==
    IF current_percentage < 5 THEN 5
    ELSE IF current_percentage < 10 THEN 10
    ELSE IF current_percentage < 25 THEN 25
    ELSE IF current_percentage < 50 THEN 50
    ELSE IF current_percentage < target
         THEN Min({target, current_percentage + 25})
    ELSE current_percentage

CanarySplit(traffic_percentage) ==
    Split("canary", traffic_percentage, "baseline", 100 - traffic_percentage)

\* canary_id is in active_canaries from its creation on: nothing removes it
CanaryLookup(ac, canary_id) == ac[canary_id]

\* start_canary_release opening the release at its target percentage
start_at_target(config, callers) ==
    LET canary_id == Dashed(config.model_name, config.canary_version)
                         \o <<now>>
        initial_traffic == config.canary_traffic_percentage
        canary_info ==
            [config |-> config, start_time |-> now, status |-> RUNNING,
             evaluations |-> <<>>,
             current_traffic_percentage |-> initial_traffic]
    IN  /\ Len(canary_heap) < Cardinality(callers)
        /\ canary_heap' = Append(canary_heap, canary_info)
        /\ active_canaries' =
               Put(active_canaries, canary_id, Len(canary_heap) + 1)
        /\ routing_rules' = UpdatedRules(routing_rules, config.model_name,
                                         CanarySplit(initial_traffic))
        /\ request_counts' = UpdatedCounts(request_counts, config.model_name,
                                           CanarySplit(initial_traffic))
        /\ loops' = Append(loops, [canary_id |-> canary_id, canary_info |-> 0,
                                   pc |-> "created", wake |-> now])
        /\ last_return' =
               [op |-> "start_canary_release", success |-> TRUE,
                canary_id |-> canary_id,
                initial_traffic_percentage |-> initial_traffic,
                pre_rules |-> routing_rules]
        /\ UNCHANGED <<chatVars, now, bgVars, version_hash, canary_results>>

\* await manager.start_canary_release(config); nothing in it suspends
start_canary_release(config, callers) ==
    LET canary_id == Dashed(config.model_name, config.canary_version)
                         \o <<now>>
        initial_traffic ==
            Min({config.canary_traffic_percentage, InitialCanaryTraffic})
        canary_info ==
            [config |-> config, start_time |-> now, status |-> RUNNING,
             evaluations |-> <<>>,
             current_traffic_percentage |-> initial_traffic]
    IN  /\ Len(canary_heap) < Cardinality(callers)
        /\ canary_heap' = Append(canary_heap, canary_info)
        /\ active_canaries' =
               Put(active_canaries, canary_id, Len(canary_heap) + 1)
        /\ routing_rules' = UpdatedRules(routing_rules, config.model_name,
                                         CanarySplit(initial_traffic))
        /\ request_counts' = UpdatedCounts(request_counts, config.model_name,
                                           CanarySplit(initial_traffic))
        /\ loops' = Append(loops, [canary_id |-> canary_id, canary_info |-> 0,
                                   pc |-> "created", wake |-> now])
        /\ last_return' =
               [op |-> "start_canary_release", success |-> TRUE,
                canary_id |-> canary_id,
                initial_traffic_percentage |-> initial_traffic,
                pre_rules |-> routing_rules]
        /\ UNCHANGED <<chatVars, now, bgVars, version_hash, canary_results>>

LoopRunnable(l) ==
    /\ loops[l].pc \in {"created", "sleeping"}
    /\ loops[l].wake <= now

\* the canary_info the loop l holds: looked up when the task first runs
LoopInfo(l) ==
    IF loops[l].pc = "created"
    THEN CanaryLookup(active_canaries, loops[l].canary_id)
    ELSE loops[l].canary_info

LoopSleep(l, mine) ==
    LET seconds ==
            canary_heap[mine].config.evaluation_interval_minutes
                * SecondsPerMinute
    IN  [loops[l] EXCEPT !.canary_info = mine, !.pc = "sleeping",
                         !.wake = now + Min({SleepCap, seconds})]

\* _monitor_canary_release: the while condition fails
canary_loop_exit(l) ==
    /\ LoopRunnable(l)
    /\ canary_heap[LoopInfo(l)].status # RUNNING
    /\ loops' = [loops EXCEPT ![l] = [@ EXCEPT !.canary_info = LoopInfo(l),
                                               !.pc = "ended"]]
    /\ last_return' = NoReturn
    /\ UNCHANGED <<chatVars, now, routerVars, bgVars, version_hash, canary_heap,
                   active_canaries, canary_results>>

\* the promotion with its weights the other way round
SwappedPromoteSplit == CanarySplit(0)

\* the split _complete_canary_release routes when auto_promote is set
PromoteSplit == CanarySplit(100)

\* _monitor_canary_release: the rollout duration has elapsed;
\* _complete_canary_release acts on the canary_info registered under the id
canary_loop_complete(l) ==
    LET mine == LoopInfo(l)
        canary_id == loops[l].canary_id
        cur == CanaryLookup(active_canaries, canary_id)
        config == canary_heap[cur].config
    IN  /\ LoopRunnable(l)
        /\ canary_heap[mine].status = RUNNING
        /\ now - canary_heap[mine].start_time
               >= canary_heap[mine].config.rollout_duration_minutes
                      * SecondsPerMinute
        /\ IF config.auto_promote
           THEN /\ routing_rules' = UpdatedRules(routing_rules,
                                        config.model_name, PromoteSplit)
                /\ request_counts' = UpdatedCounts(request_counts,
                                        config.model_name, PromoteSplit)
           ELSE UNCHANGED routerVars
        /\ canary_heap' = [canary_heap EXCEPT ![cur].status = COMPLETED]
        /\ canary_results' =
               Put(canary_results, canary_id,
                   [final_status |-> "success", canary_info |-> cur])
        /\ loops' = [loops EXCEPT ![l] = [@ EXCEPT !.canary_info = mine,
                                                   !.pc = "ended"]]
        /\ last_return' = NoReturn
        /\ UNCHANGED <<chatVars, now, bgVars, version_hash, active_canaries>>

\* _monitor_canary_release: _evaluate_canary_performance divides by the
\* number of criteria, and the exception ends the task
canary_loop_raised(l) ==
    LET mine == LoopInfo(l)
        cur == CanaryLookup(active_canaries, loops[l].canary_id)
    IN  /\ LoopRunnable(l)
        /\ canary_heap[mine].status = RUNNING
        /\ now - canary_heap[mine].start_time
               < canary_heap[mine].config.rollout_duration_minutes
                     * SecondsPerMinute
        /\ Len(canary_heap[cur].config.success_criteria) = 0
        /\ loops' = [loops EXCEPT ![l] = [@ EXCEPT !.canary_info = mine,
                                                   !.pc = "raised"]]
        /\ last_return' = NoReturn
        /\ UNCHANGED <<chatVars, now, routerVars, bgVars, version_hash, canary_heap,
                       active_canaries, canary_results>>

\* _abort_canary_release on the heap after the evaluation was appended
_abort_canary_release(h, cur) ==
    [h EXCEPT ![cur].status = ABORTED]

\* the weights of the abort the other way round
SwappedAbortSplit == CanarySplit(100)

\* the split _abort_canary_release routes
AbortSplit == CanarySplit(0)

\* _monitor_canary_release: one evaluation, what it decides, and the sleep
canary_loop_evaluate(l) ==
    LET mine == LoopInfo(l)
        canary_id == loops[l].canary_id
        cur == CanaryLookup(active_canaries, canary_id)
        config == canary_heap[cur].config
        evaluation_result == _evaluate_canary_performance(config)
        h1 == [canary_heap EXCEPT
                  ![mine].evaluations = Append(@, evaluation_result)]
        new_traffic_percentage ==
            _calculate_next_traffic_percentage(
                h1[cur].current_traffic_percentage,
                config.canary_traffic_percentage)
    IN  /\ LoopRunnable(l)
        /\ canary_heap[mine].status = RUNNING
        /\ now - canary_heap[mine].start_time
               < canary_heap[mine].config.rollout_duration_minutes
                     * SecondsPerMinute
        /\ Len(config.success_criteria) > 0
        /\ CASE evaluation_result.decision = "abort" ->
                  /\ routing_rules' = UpdatedRules(routing_rules,
                                          config.model_name, AbortSplit)
                  /\ request_counts' = UpdatedCounts(request_counts,
                                          config.model_name, AbortSplit)
                  /\ canary_heap' = _abort_canary_release(h1, cur)
                  /\ canary_results' =
                         Put(canary_results, canary_id,
                             [final_status |-> "aborted", canary_info |-> cur])
                  /\ loops' = [loops EXCEPT
                                  ![l] = [@ EXCEPT !.canary_info = mine,
                                                   !.pc = "ended"]]
             [] evaluation_result.decision = "proceed" ->
                  /\ routing_rules' =
                         UpdatedRules(routing_rules, config.model_name,
                                      CanarySplit(new_traffic_percentage))
                  /\ request_counts' =
                         UpdatedCounts(request_counts, config.model_name,
                                       CanarySplit(new_traffic_percentage))
                  /\ canary_heap' =
                         [h1 EXCEPT ![cur].current_traffic_percentage =
                                        new_traffic_percentage]
                  /\ loops' = [loops EXCEPT ![l] = LoopSleep(l, mine)]
                  /\ UNCHANGED canary_results
             [] OTHER ->
                  /\ canary_heap' = h1
                  /\ loops' = [loops EXCEPT ![l] = LoopSleep(l, mine)]
                  /\ UNCHANGED <<routerVars, canary_results>>
        /\ last_return' = NoReturn
        /\ UNCHANGED <<chatVars, now, bgVars, version_hash, active_canaries>>

\* an id no release was started under
UnknownCanaryId == <<"m1", "v2", -1>>

\* manager.get_canary_status(canary_id): the dict it returns
get_canary_status(canary_id) ==
    IF canary_id \in DOMAIN active_canaries
    THEN LET canary_info == canary_heap[active_canaries[canary_id]]
             evaluations == canary_info.evaluations
         IN  [canary_id |-> canary_id,
              model_name |-> canary_info.config.model_name,
              status |-> canary_info.status,
              current_traffic_percentage |->
                  canary_info.current_traffic_percentage,
              start_time |-> canary_info.start_time,
              evaluations_count |-> Len(evaluations),
              latest_evaluation |->
                  IF evaluations # <<>> THEN <<evaluations[Len(evaluations)]>>
                  ELSE <<>>]
    ELSE IF canary_id \in DOMAIN canary_results
    THEN LET r == canary_results[canary_id]
         IN  [config |-> canary_heap[r.canary_info].config,
              evaluations |-> canary_heap[r.canary_info].evaluations,
              final_status |-> r.final_status]
    ELSE [error |-> "Canary release not found"]

\* a caller asks for the status of a release
get_canary_status_call(canary_id) ==
    /\ last_return' = [op |-> "get_canary_status", canary_id |-> canary_id,
                       result |-> get_canary_status(canary_id)]
    /\ UNCHANGED <<chatVars, now, routerVars, bgVars, canaryVars>>

\* the time of one sleep of a monitoring loop passes; the event loop has
\* run every task that was ready
CanaryTick(limit) ==
    /\ now < limit * SleepCap
    /\ \A l \in DOMAIN loops : ~LoopRunnable(l)
    /\ now' = now + SleepCap
    /\ last_return' = NoReturn
    /\ UNCHANGED <<chatVars, routerVars, bgVars, canaryVars>>

-----------------------------------------------------------------------------
(***************************************************************************)
(* The chat client (first_chat_completion/main.py):                        *)
(* AzureAIFoundryClient._make_completion_request, lines 488-520.  The      *)
(* coroutine suspends at the await of _chat_client.complete and at the     *)
(* await of asyncio.sleep; one action runs it from one suspension to the   *)
(* next.                                                                   *)
(***************************************************************************)

\* the exceptions _chat_client.complete raises, by class
ExceptionClasses == {"HttpResponseError", "AzureError", "ValueError"}

\* line 504: except (HttpResponseError, AzureError)
Retryable(class) == class \in {"HttpResponseError", "AzureError"}

\* config.max_retries: int(os.getenv('MAX_RETRIES', '3')), which
\* AzureAIFoundryConfig.validate (lines 113-128) does not look at
MaxRetriesValues == (0 - MaxRetriesLimit) .. MaxRetriesLimit

\* line 490: last_exception = None
NoException == [class |-> "NoneType", call |-> 0]

\* the object the n-th call of _chat_client.complete returns or raises
Outcome(class, n) == [class |-> class, call |-> n]

\* 2 ** attempt
RECURSIVE Pow2(_)
Pow2(n) == IF n = 0 THEN 1 ELSE 2 * Pow2(n - 1)

\* the client after construction with config.max_retries = max_retries;
\* calls counts the calls of _chat_client.complete
NewRequest(max_retries) ==
    [pc |-> "idle", max_retries |-> max_retries, attempt |-> 0,
     last_exception |-> NoException, calls |-> 0, delay |-> 0,
     result |-> NoException]

\* line 520: raise last_exception; raising None is a TypeError
RaiseLast(r) ==
    [r EXCEPT !.pc = "raised",
              !.result = IF r.last_exception = NoException
                         THEN Outcome("TypeError", 0)
                         ELSE r.last_exception]

\* line 492: the for statement takes the next value attempt of
\* range(max_retries + 1), or leaves the loop for line 520
NextAttempt(r, attempt) ==
    IF attempt < r.max_retries + 1
    THEN [r EXCEPT !.pc = "complete", !.attempt = attempt]
    ELSE RaiseLast(r)

\* lines 488-501: the call, up to the first await of complete
_make_completion_request ==
    /\ request.pc = "idle"
    /\ request' = NextAttempt(request, 0)
    /\ UNCHANGED <<now, routerVars, bgVars, canaryVars, last_return>>

\* lines 501-502: complete returns a response, which is returned
complete_returned ==
    /\ request.pc = "complete"
    /\ request' = [request EXCEPT
                       !.pc = "returned",
                       !.calls = @ + 1,
                       !.result = Outcome("ChatCompletions", request.calls + 1)]
    /\ UNCHANGED <<now, routerVars, bgVars, canaryVars, last_return>>

\* lines 504-518: complete raises; an Azure error is kept and, below
\* max_retries, followed by a sleep of retry_delay * 2 ** attempt, else by
\* the break to line 520; any other exception is re-raised
complete_raised(class) ==
    /\ request.pc = "complete"
    /\ LET e == Outcome(class, request.calls + 1)
           r == [request EXCEPT !.calls = @ + 1]
       IN  request' =
               IF Retryable(class)
               THEN LET kept == [r EXCEPT !.last_exception = e]
                    IN  IF kept.attempt < kept.max_retries
                        THEN [kept EXCEPT
                                  !.pc = "sleep",
                                  !.delay = RetryDelay * Pow2(kept.attempt)]
                        ELSE RaiseLast(kept)
               ELSE [r EXCEPT !.pc = "raised", !.result = e]
    /\ UNCHANGED <<now, routerVars, bgVars, canaryVars, last_return>>

\* line 510: asyncio.sleep(delay) returns and the loop goes on
retry_sleep_returned ==
    /\ request.pc = "sleep"
    /\ request' = NextAttempt(request, request.attempt + 1)
    /\ UNCHANGED <<now, routerVars, bgVars, canaryVars, last_return>>

Init ==
    /\ now = 0
    /\ routing_rules = EmptyDict
    /\ request_counts = EmptyDict
    /\ heap = <<>>
    /\ deployments = <<>>
    /\ active_slots = EmptyDict
    /\ tasks = [t \in Tasks |-> IdleTask]
    /\ last_return = NoReturn
    /\ version_hash \in HashSeeds
    /\ canary_heap = <<>>
    /\ active_canaries = EmptyDict
    /\ canary_results = EmptyDict
    /\ loops = <<>>
    /\ request = NewRequest(DefaultMaxRetries)

\* the blue-green manager never asks for version metrics
InitBlueGreen == Init /\ version_hash = ("v1" :> 0) @@ ("v2" :> 0)

\* the blue-green manager used by the callers in T, creating at most limit
\* deployments up to time time_limit; rollback_deployment is called while
\* no caller in S is inside deploy_new_version
BlueGreenStep(T, S, limit, time_limit) ==
    \/ \E t \in T, m \in Models, v \in Versions : deploy_begin(t, m, v, limit)
    \/ \E t \in T : deploy_provisioned(t, time_limit)
    \/ \E t \in T : deploy_provision_raised(t)
    \/ \E t \in T, o \in ValidationRuns : deploy_validated(t, o)
    \/ \E t \in T : deploy_cleaned(t)
    \/ \E t \in T, e \in ErrorRates, r \in ResponseTimes :
           deploy_monitored(t, e, r)
    \/ \E m \in Models : rollback_call(m, S)
    \/ Tick(time_limit)

\* deploy_new_version calls may overlap (nothing in the code serializes them)
NextBlueGreen == BlueGreenStep(Tasks, {}, MaxDeployments, MaxTime)
SpecBlueGreen == InitBlueGreen /\ [][NextBlueGreen]_vars

\* one caller that awaits each call before it issues the next
NextSequential == BlueGreenStep({1}, {1}, MaxSeqDeployments, MaxSeqTime)
SpecSequential == InitBlueGreen /\ [][NextSequential]_vars

\* canary releases started by one caller, their monitoring tasks and the clock
NextCanary ==
    \/ \E config \in CanaryConfiguration :
           start_canary_release(config, CanaryCallers)
    \/ \E l \in DOMAIN loops : canary_loop_exit(l)
    \/ \E l \in DOMAIN loops : canary_loop_complete(l)
    \/ \E l \in DOMAIN loops : canary_loop_raised(l)
    \/ \E l \in DOMAIN loops : canary_loop_evaluate(l)
    \/ \E canary_id \in DOMAIN active_canaries \cup {UnknownCanaryId} :
           get_canary_status_call(canary_id)
    \/ CanaryTick(MaxCanaryTicks)

SpecCanary == Init /\ [][NextCanary]_vars

\* the router used directly
NextRouter ==
    \/ \E m \in Models, traffic_split \in SplitInputs :
           update_traffic_split(m, traffic_split)
    \/ \E m \in Models, random_value \in 1..100 :
           route_request(m, random_value)
    \/ \E m \in Models : get_traffic_stats_call(m)

SpecRouter == InitBlueGreen /\ [][NextRouter]_vars

\* the blue-green manager serving two services, their deployments
\* overlapping
NextServices ==
    \/ \E t \in Tasks, r \in ServiceReleases :
           deploy_begin(t, r[1], r[2], MaxDeployments)
    \/ \E t \in Tasks : deploy_provisioned(t, MaxTime)
    \/ \E t \in Tasks : deploy_provision_raised(t)
    \/ \E t \in Tasks, o \in ValidationRuns : deploy_validated(t, o)
    \/ \E t \in Tasks : deploy_cleaned(t)
    \/ \E t \in Tasks, e \in ErrorRates, r \in ResponseTimes :
           deploy_monitored(t, e, r)
    \/ \E m \in Services : rollback_call(m, {})
    \/ Tick(MaxTime)

SpecServices == InitBlueGreen /\ [][NextServices]_vars

\* the health checker called directly, every rule ending in every way
NextValidation ==
    \E d \in ValidatedDeployments, o \in [DOMAIN validation_rules -> RuleOutcomes] :
        validate_deployment_call(d, o)

SpecValidation == InitBlueGreen /\ [][NextValidation]_vars

\* the chat client, constructed from every MAX_RETRIES of the environment
InitChat ==
    /\ now = 0
    /\ routing_rules = EmptyDict
    /\ request_counts = EmptyDict
    /\ heap = <<>>
    /\ deployments = <<>>
    /\ active_slots = EmptyDict
    /\ tasks = [t \in Tasks |-> IdleTask]
    /\ last_return = NoReturn
    /\ version_hash = ("v1" :> 0) @@ ("v2" :> 0)
    /\ canary_heap = <<>>
    /\ active_canaries = EmptyDict
    /\ canary_results = EmptyDict
    /\ loops = <<>>
    /\ request \in {NewRequest(n) : n \in MaxRetriesValues}

NextChat ==
    \/ _make_completion_request
    \/ complete_returned
    \/ \E class \in ExceptionClasses : complete_raised(class)
    \/ retry_sleep_returned

SpecChat == InitChat /\ [][NextChat]_vars

(***************************************************************************)
(* Properties of deploy_new_version                                        *)
(***************************************************************************)
\* the weights of a split, by variant
Weights(split) ==
    [v \in Variants(split) |->
        LET i == CHOOSE j \in DOMAIN split : split[j].variant = v
        IN  split[i].weight]

\* all traffic of the model goes to slot, none to the other slot
AllTrafficOn(model_name, slot) ==
    /\ model_name \in DOMAIN routing_rules
    /\ Weights(routing_rules[model_name]) =
           (slot :> 100) @@ (_get_opposite_slot(slot) :> 0)

DeployReturned(result) ==
    last_return.op = "deploy" /\ last_return.result = result

DeployFailures ==
    {"Deployment validation failed", "Traffic shift failed", "Deployment failed"}

\* the registered deployments of a model
DeploymentsOf(model_name) ==
    {d \in Registered(deployments) : heap[d].model_name = model_name}

PreShiftStep(t) ==
    /\ tasks'[t] # tasks[t]
    /\ tasks[t].pc \in {"idle", "deploying", "validating", "cleanup"}
    /\ tasks'[t].pc # "shifting"
    /\ tasks[t].error # "Deployment failed"

\* the step that receives a failed validation report
ValidationFailedStep(t) ==
    /\ tasks[t].pc = "validating"
    /\ tasks'[t].pc = "cleanup"

\* C3: on the path of deploy_new_version that ends in "Deployment validation
\* failed", no step of the call changes the split, the request counters or
\* the active-slot pointer of any service, and the step that handles the
\* failed report changes nothing in the registry but the status of the new
\* deployment, which becomes FAILED.
C3_ValidationFailureMovesNoTraffic ==
    [][\A t \in Tasks :
          /\ PreShiftStep(t) =>
                 /\ routing_rules' = routing_rules
                 /\ request_counts' = request_counts
                 /\ active_slots' = active_slots
          /\ ValidationFailedStep(t) =>
                 /\ deployments' = deployments
                 /\ heap' = [heap EXCEPT ![tasks[t].deployment].status = FAILED]]_vars

\* C3 witness: a call returned "Deployment validation failed" for a service
\* that has a live split and an active slot
C3_Witness ==
    /\ DeployReturned("Deployment validation failed")
    /\ last_return.model_name \in DOMAIN routing_rules
    /\ last_return.model_name \in DOMAIN active_slots
    /\ routing_rules[last_return.model_name] = last_return.pre_split
    /\ heap[last_return.deployment].status = FAILED

\* C4: when deploy_new_version returns success, the new deployment is the
\* only registered ACTIVE deployment of the service, it is in the slot of the
\* active-slot pointer, which has all the traffic, and the deployment that
\* was ACTIVE before the call is INACTIVE with traffic percentage 0.
C4_SuccessLeavesOneActive ==
    DeployReturned("success") =>
        LET m == last_return.model_name
            d == last_return.deployment
        IN  /\ {x \in DeploymentsOf(m) : heap[x].status = ACTIVE} = {d}
            /\ m \in DOMAIN active_slots
            /\ heap[d].slot = active_slots[m]
            /\ AllTrafficOn(m, active_slots[m])
            /\ last_return.pre_deployment # 0 =>
                   /\ heap[last_return.pre_deployment].status = INACTIVE
                   /\ heap[last_return.pre_deployment].traffic_percentage = 0

\* C5: at most one deploy_new_version or rollback_deployment is in flight per
\* service: no two deploy calls for the same service are between their call
\* and their return at once, and no rollback runs for a service while a
\* deploy call for it is suspended.
C5_OneOperationInFlightPerService ==
    /\ \A t, u \in Tasks :
           (t # u /\ InFlight(t) /\ InFlight(u)) =>
               tasks[t].model_name # tasks[u].model_name
    /\ \A t \in Tasks :
           (last_return.op = "rollback" /\ InFlight(t)) =>
               tasks[t].model_name # last_return.model_name

\* a split whose weights are non-negative and sum to 100
RECURSIVE SumWeights(_)
SumWeights(split) ==
    IF split = <<>> THEN 0
    ELSE Head(split).weight + SumWeights(Tail(split))

ValidSplit(split) ==
    /\ \A i \in DOMAIN split : split[i].weight >= 0
    /\ SumWeights(split) = 100

\* C6: every traffic split applied to the router, by either manager and for
\* any target percentage of a canary configuration, has only non-negative
\* weights that sum to exactly 100.
C6_AppliedSplitsAreValid ==
    \A m \in DOMAIN routing_rules : ValidSplit(routing_rules[m])

\* C7: update_traffic_split fails with an invalid-split error and leaves
\* the stored split and the counters unchanged whenever the weights it is
\* given do not sum to 100 or contain a negative value.
C7_InvalidSplitIsRejected ==
    (/\ last_return.op = "update_traffic_split"
     /\ ~ValidSplit(last_return.traffic_split)) =>
        /\ last_return.raised
        /\ routing_rules = last_return.pre_rules
        /\ request_counts = last_return.pre_counts

\* C8: in every reachable state the current traffic percentage of a canary
\* release never exceeds the target canary_traffic_percentage of its
\* configuration.
C8_CanaryNeverExceedsTarget ==
    \A i \in DOMAIN canary_heap :
        canary_heap[i].current_traffic_percentage
            <= canary_heap[i].config.canary_traffic_percentage

\* C9: while a canary release is Running, no step lowers its current
\* traffic percentage, whatever sequence of proceed and hold decisions its
\* evaluations make.
C9_RunningCanaryNeverDecreases ==
    [][\A i \in DOMAIN canary_heap :
          (canary_heap[i].status = RUNNING /\ canary_heap'[i].status = RUNNING)
              => canary_heap'[i].current_traffic_percentage
                     >= canary_heap[i].current_traffic_percentage]_vars

\* a Running release that proceeded and then went through further decisions
C9_Witness ==
    \E i \in DOMAIN canary_heap :
        /\ canary_heap[i].status = RUNNING
        /\ Len(canary_heap[i].evaluations) >= 3
        /\ canary_heap[i].evaluations[1].decision = "proceed"
        /\ canary_heap[i].current_traffic_percentage >= 25

\* the step in which monitoring loop l appends an evaluation whose
\* confidence is below 0.70
AbortDecided(l) ==
    /\ loops'[l] # loops[l]
    /\ LET mine == loops'[l].canary_info
       IN  /\ mine \in DOMAIN canary_heap
           /\ Len(canary_heap'[mine].evaluations)
                  = Len(canary_heap[mine].evaluations) + 1
           /\ LET e == canary_heap'[mine].evaluations[
                           Len(canary_heap'[mine].evaluations)]
              IN  10 * e.passed_criteria < 7 * e.total_criteria

RevertedToBaseline(model_name) ==
    /\ model_name \in DOMAIN routing_rules'
    /\ routing_rules'[model_name] = Split("canary", 0, "baseline", 100)

\* C10: the step in which an evaluation of a Running canary yields a
\* confidence below 0.70 leaves the release Aborted, the split at canary 0 /
\* baseline 100 and the loop ended; and every step that writes the Aborted
\* status has the split reverted when it ends, so that no other task sees
\* the release Aborted with the revert still to come.
C10_AbortRevertsTraffic ==
    [][/\ \A l \in DOMAIN loops :
              AbortDecided(l) =>
                  LET cur == active_canaries[loops[l].canary_id]
                  IN  /\ canary_heap'[cur].status = ABORTED
                      /\ RevertedToBaseline(canary_heap[cur].config.model_name)
                      /\ loops'[l].pc = "ended"
       /\ \A i \in DOMAIN canary_heap :
              (canary_heap[i].status # ABORTED
               /\ canary_heap'[i].status = ABORTED)
                  => RevertedToBaseline(canary_heap[i].config.model_name)]_vars

\* a release aborted by its first evaluation, the revert in place
C10_Witness ==
    \E l \in DOMAIN loops :
        /\ loops[l].pc = "ended"
        /\ loops[l].canary_id \in DOMAIN canary_results
        /\ canary_results[loops[l].canary_id].final_status = "aborted"
        /\ LET cur == active_canaries[loops[l].canary_id]
           IN  /\ canary_heap[cur].status = ABORTED
               /\ Len(canary_heap[cur].evaluations) >= 1
               /\ routing_rules[canary_heap[cur].config.model_name]
                      = Split("canary", 0, "baseline", 100)

\* the step in which monitoring loop l appends an evaluation
Evaluated(l) ==
    /\ loops'[l] # loops[l]
    /\ LET mine == loops'[l].canary_info
       IN  /\ mine \in DOMAIN canary_heap
           /\ Len(canary_heap'[mine].evaluations)
                  = Len(canary_heap[mine].evaluations) + 1

\* the evaluation that step appended
NewEvaluation(l) ==
    LET mine == loops'[l].canary_info
    IN  canary_heap'[mine].evaluations[Len(canary_heap'[mine].evaluations)]

\* C11: every evaluation decides abort when fewer than 70% of the criteria
\* passed, proceed when at least 90% passed and hold in between; a hold
\* changes neither the router nor the status of any release, the loop's
\* release stays Running and the loop sleeps until the next interval.
C11_DecisionFollowsConfidence ==
    [][\A l \in DOMAIN loops :
          Evaluated(l) =>
              LET e == NewEvaluation(l)
                  p == e.passed_criteria
                  t == e.total_criteria
                  mine == loops'[l].canary_info
              IN  /\ 10 * p < 7 * t => e.decision = "abort"
                  /\ 10 * p >= 9 * t => e.decision = "proceed"
                  /\ (10 * p >= 7 * t /\ 10 * p < 9 * t) => e.decision = "hold"
                  /\ e.decision = "hold" =>
                        /\ routing_rules' = routing_rules
                        /\ request_counts' = request_counts
                        /\ \A i \in DOMAIN canary_heap :
                               /\ canary_heap'[i].status = canary_heap[i].status
                               /\ canary_heap'[i].current_traffic_percentage
                                     = canary_heap[i].current_traffic_percentage
                        /\ canary_heap'[mine].status = RUNNING
                        /\ loops'[l].pc = "sleeping"]_vars

\* a release held twice at its initial percentage
C11_Witness ==
    \E i \in DOMAIN canary_heap :
        /\ canary_heap[i].status = RUNNING
        /\ Len(canary_heap[i].evaluations) >= 2
        /\ canary_heap[i].evaluations[1].decision = "hold"
        /\ canary_heap[i].evaluations[2].decision = "hold"
        /\ canary_heap[i].evaluations[1].passed_criteria = 3
        /\ canary_heap[i].current_traffic_percentage = 3

\* C12: the monitoring loop of a release runs until the release is terminal:
\* as long as the release registered under an id is Running, a monitoring
\* task for that id is still scheduled or asleep, so that with time
\* advancing the release reaches Completed or Aborted.
C12_RunningReleaseHasLiveLoop ==
    \A canary_id \in DOMAIN active_canaries :
        canary_heap[active_canaries[canary_id]].status = RUNNING =>
            \E l \in DOMAIN loops :
                /\ loops[l].canary_id = canary_id
                /\ loops[l].pc \in {"created", "sleeping"}

\* the step in which monitoring loop l, awake with its release Running,
\* finds the rollout duration of the release elapsed
DurationElapsed(l) ==
    /\ loops'[l] # loops[l]
    /\ LoopRunnable(l)
    /\ canary_heap[LoopInfo(l)].status = RUNNING
    /\ now - canary_heap[LoopInfo(l)].start_time
           >= canary_heap[LoopInfo(l)].config.rollout_duration_minutes
                  * SecondsPerMinute

\* C13: the step in which a loop finds the rollout duration elapsed
\* completes the release registered under its id without evaluating: no
\* evaluation is appended, the status becomes Completed, and the split
\* becomes canary 100 / baseline 0 when auto_promote is set and is left as
\* it was otherwise.
C13_ElapsedDurationCompletes ==
    [][\A l \in DOMAIN loops :
          DurationElapsed(l) =>
              LET cur == active_canaries[loops[l].canary_id]
                  config == canary_heap[cur].config
              IN  /\ canary_heap'[cur].status = COMPLETED
                  /\ \A i \in DOMAIN canary_heap :
                         canary_heap'[i].evaluations = canary_heap[i].evaluations
                  /\ loops'[l].pc = "ended"
                  /\ IF config.auto_promote
                     THEN /\ config.model_name \in DOMAIN routing_rules'
                          /\ routing_rules'[config.model_name]
                                 = Split("canary", 100, "baseline", 0)
                     ELSE /\ routing_rules' = routing_rules
                          /\ request_counts' = request_counts]_vars

\* a release completed without promotion, and after it one completed with
\* the promotion applied
C13_Witness ==
    \E i, j \in DOMAIN canary_heap :
        /\ canary_heap[i].status = COMPLETED
        /\ ~canary_heap[i].config.auto_promote
        /\ canary_heap[j].status = COMPLETED
        /\ canary_heap[j].config.auto_promote
        /\ routing_rules[canary_heap[j].config.model_name]
               = Split("canary", 100, "baseline", 0)

\* C14: get_canary_status answers the live state while the release is
\* Running or Paused, the finalized result record (every evaluation and the
\* final status) once it is Completed or Aborted, and the not-found error
\* for an id that was never started.
C14_StatusAnswersByPhase ==
    last_return.op = "get_canary_status" =>
        LET canary_id == last_return.canary_id
            result == last_return.result
        IN  IF canary_id \notin DOMAIN active_canaries
            THEN result = [error |-> "Canary release not found"]
            ELSE LET canary_info == canary_heap[active_canaries[canary_id]]
                 IN  IF canary_info.status \in {RUNNING, PAUSED}
                     THEN /\ "status" \in DOMAIN result
                          /\ result.status = canary_info.status
                          /\ result.current_traffic_percentage
                                 = canary_info.current_traffic_percentage
                     ELSE /\ "final_status" \in DOMAIN result
                          /\ result.evaluations = canary_info.evaluations

\* C15: every start_canary_release creates a release under an id of its own
\* (no id is registered twice, so the ids registered are as many as the
\* releases created), and no two monitoring tasks that are still scheduled
\* or asleep work under the same id.
C15_OneLoopPerReleaseId ==
    /\ Cardinality(DOMAIN active_canaries) = Len(canary_heap)
    /\ \A l1, l2 \in DOMAIN loops :
           (/\ l1 # l2
            /\ loops[l1].pc \in {"created", "sleeping"}
            /\ loops[l2].pc \in {"created", "sleeping"})
               => loops[l1].canary_id # loops[l2].canary_id

\* evaluations old extended by at most one record
ExtendsByAtMostOne(old, new) ==
    /\ Len(new) \in {Len(old), Len(old) + 1}
    /\ SubSeq(new, 1, Len(old)) = old

\* C16: the evaluation history of every release only grows, one record per
\* evaluation cycle and with the earlier records unchanged, and the result
\* stored when a loop completes or aborts the release holds every
\* evaluation that loop appended, the one that triggered the abort included.
C16_HistoryIsAppendOnly ==
    [][/\ \A i \in DOMAIN canary_heap :
              ExtendsByAtMostOne(canary_heap[i].evaluations,
                                 canary_heap'[i].evaluations)
       /\ \A l \in DOMAIN loops :
              (/\ loops'[l] # loops[l]
               /\ canary_results' # canary_results) =>
                  LET canary_id == loops[l].canary_id
                      r == canary_results'[canary_id]
                  IN  canary_heap'[r.canary_info].evaluations
                          = canary_heap'[loops'[l].canary_info].evaluations]_vars

\* the result of the rollback_deployment call just made
RollbackReturned(result) ==
    /\ last_return.op = "rollback"
    /\ last_return.result = result

\* C17: a rollback_deployment call that succeeds leaves 100% of the traffic
\* on the slot opposite the one that was active and 0% on the formerly
\* active slot, the chosen deployment of that slot Active with traffic
\* percentage 100, the formerly active deployment Inactive with traffic
\* percentage 0, and the active-slot pointer on the opposite slot.
C17_RollbackSwitchesToOppositeSlot ==
    RollbackReturned("success") =>
        LET m == last_return.model_name
            target == _get_opposite_slot(last_return.pre_active)
            chosen == last_return.deployment
            former == last_return.pre_deployment
        IN  /\ last_return.pre_active \in DeploymentSlot
            /\ AllTrafficOn(m, target)
            /\ active_slots[m] = target
            /\ heap[chosen].slot = target
            /\ heap[chosen].status = ACTIVE
            /\ heap[chosen].traffic_percentage = 100
            /\ former # 0 =>
                   /\ heap[former].status = INACTIVE
                   /\ heap[former].traffic_percentage = 0

\* a rollback that succeeded and took the formerly active deployment out
C17_Witness ==
    /\ RollbackReturned("success")
    /\ last_return.pre_deployment # 0
    /\ last_return.pre_deployment # last_return.deployment
    /\ heap[last_return.deployment].status = ACTIVE

\* the second in which a deployment was created
CreatedAt(d) == IdTimestamp(heap[d].deployment_id)

\* C18: a rollback_deployment call that succeeds reactivates the most
\* recently created of the Inactive deployments of the service in the slot
\* opposite the active one: none of those it left Inactive is newer than
\* the one it chose.
C18_RollbackPicksMostRecent ==
    RollbackReturned("success") =>
        LET m == last_return.model_name
            chosen == last_return.deployment
        IN  \A d \in DeploymentsOf(m) :
                (/\ heap[d].slot = heap[chosen].slot
                 /\ heap[d].status = INACTIVE)
                    => CreatedAt(d) <= CreatedAt(chosen)

RollbackFailures ==
    {"No active deployment found", "No previous deployment found for rollback"}

\* the Inactive registered deployments of the model in the given slot
InactiveIn(model_name, slot) ==
    {d \in DeploymentsOf(model_name) :
        heap[d].slot = slot /\ heap[d].status = INACTIVE}

\* C19: a rollback_deployment call for a service without an active slot, or
\* without an Inactive deployment in the slot opposite the active one,
\* returns the matching failure result; and a rollback call that returns a
\* failure leaves the split, the counters, the active-slot pointer, the
\* registry and every deployment's status and traffic percentage as they
\* were.
C19_FailedRollbackChangesNothing ==
    [][last_return'.op = "rollback" =>
          LET m == last_return'.model_name
          IN  /\ m \notin DOMAIN active_slots =>
                     last_return'.result = "No active deployment found"
              /\ (/\ m \in DOMAIN active_slots
                  /\ InactiveIn(m, _get_opposite_slot(active_slots[m])) = {})
                     => last_return'.result
                            = "No previous deployment found for rollback"
              /\ last_return'.result # "success" =>
                     /\ last_return'.result \in RollbackFailures
                     /\ routing_rules' = routing_rules
                     /\ request_counts' = request_counts
                     /\ active_slots' = active_slots
                     /\ deployments' = deployments
                     /\ heap' = heap]_vars

\* a rollback refused for want of a previous deployment, the service
\* serving from its active slot
C19_Witness ==
    /\ RollbackReturned("No previous deployment found for rollback")
    /\ last_return.model_name \in DOMAIN active_slots
    /\ AllTrafficOn(last_return.model_name,
                    active_slots[last_return.model_name])
    /\ ActiveDeployment(last_return.model_name) # 0

\* the step that calls rollback_deployment for a service right after a
\* deploy_new_version call for it returned success
RollbackAfterSuccess ==
    /\ DeployReturned("success")
    /\ last_return'.op = "rollback"
    /\ last_return'.model_name = last_return.model_name

\* C20 as stated: a rollback right after a successful deployment restores
\* the active slot and the split the service had before that deployment,
\* also when the deployment was the first of the service (no active slot
\* and no split before it).
C20_RollbackRestoresPriorState ==
    [][RollbackAfterSuccess =>
          LET m == last_return.model_name
          IN  /\ Get(active_slots', m, "none") = last_return.pre_active
              /\ Weights(Get(routing_rules', m, <<>>))
                     = Weights(last_return.pre_split)]_vars

\* C20 amended: a rollback right after a successful deployment of a service
\* that had an active slot before it succeeds, puts the active-slot pointer
\* back on that slot and routes 100% of the traffic to it (the split before
\* the deployment, whenever that split was whole); after the first
\* successful deployment of a service the rollback is refused for want of a
\* previous deployment and pointer and split stay as the deployment left
\* them.
C20_RollbackRestoresPriorSlot ==
    [][RollbackAfterSuccess =>
          LET m == last_return.model_name
              pre_active == last_return.pre_active
          IN  IF pre_active = "none"
              THEN /\ last_return'.result
                          = "No previous deployment found for rollback"
                   /\ active_slots' = active_slots
                   /\ routing_rules' = routing_rules
              ELSE /\ last_return'.result = "success"
                   /\ active_slots'[m] = pre_active
                   /\ Weights(routing_rules'[m])
                          = (pre_active :> 100)
                                @@ (_get_opposite_slot(pre_active) :> 0)
                   /\ (Weights(last_return.pre_split)
                          = (pre_active :> 100)
                                @@ (_get_opposite_slot(pre_active) :> 0))
                          => Weights(routing_rules'[m])
                                 = Weights(last_return.pre_split)]_vars

\* a rollback right after a successful deployment, back on the slot that
\* was active before
C20_Witness ==
    /\ RollbackReturned("success")
    /\ last_return.after_success
    /\ active_slots[last_return.model_name]
           = _get_opposite_slot(last_return.pre_active)
    /\ AllTrafficOn(last_return.model_name,
                    active_slots[last_return.model_name])

\* C21: when start_canary_release returns, the release registered under the
\* returned id is Running with no evaluation records, the router holds the
\* split canary = min(target, 5) / baseline = 100 - min(target, 5), and the
\* monitoring loop of the release has been created but has not run yet.
C21_StartReturnsBeforeLoopRuns ==
    last_return.op = "start_canary_release" =>
        LET canary_id == last_return.canary_id
            info == canary_heap[active_canaries[canary_id]]
            target == info.config.canary_traffic_percentage
            bootstrap == IF target < 5 THEN target ELSE 5
        IN  /\ last_return.success
            /\ canary_id \in DOMAIN active_canaries
            /\ info.status = RUNNING
            /\ info.evaluations = <<>>
            /\ last_return.initial_traffic_percentage = bootstrap
            /\ routing_rules[info.config.model_name] =
                   Split("canary", bootstrap, "baseline", 100 - bootstrap)
            /\ loops[Len(loops)].canary_id = canary_id
            /\ loops[Len(loops)].pc = "created"

\* a release with a target above the bootstrap percentage has just been
\* started while an earlier release has already been evaluated
C21_Witness ==
    /\ last_return.op = "start_canary_release"
    /\ last_return.initial_traffic_percentage = 5
    /\ canary_heap[Len(canary_heap)].config.canary_traffic_percentage > 5
    /\ \E i \in DOMAIN canary_heap : canary_heap[i].evaluations # <<>>

\* the sum of the weights of the first n variants of a split
RECURSIVE CumulativeWeight(_, _)
CumulativeWeight(split, n) ==
    IF n = 0 THEN 0 ELSE CumulativeWeight(split, n - 1) + split[n].weight

\* the counters before a route_request call with one more request for variant
CountedOnce(model_name, variant) ==
    [last_return.pre_counts EXCEPT ![model_name][variant] = @ + 1]

\* C22: route_request returns "default" and changes no counter when the
\* service has no split; for a split summing to 100 and a draw r in 1..100
\* it returns the variant whose cumulative-weight range contains r and
\* increments exactly that variant's counter by one, so that exactly w of
\* the 100 draws select a variant of weight w and none a variant of weight 0.
C22_RouteFollowsCumulativeWeights ==
    /\ last_return.op = "route_request" =>
           LET m == last_return.model_name
               r == last_return.random_value
               rule == Get(last_return.pre_rules, m, <<>>)
           IN  IF rule = <<>>
               THEN /\ last_return.variant = "default"
                    /\ request_counts = last_return.pre_counts
               ELSE SumWeights(rule) = 100 =>
                        \E i \in DOMAIN rule :
                            /\ last_return.variant = rule[i].variant
                            /\ CumulativeWeight(rule, i - 1) < r
                            /\ r <= CumulativeWeight(rule, i)
                            /\ rule[i].weight # 0
                            /\ request_counts =
                                   CountedOnce(m, rule[i].variant)
    /\ \A m \in DOMAIN routing_rules :
           LET rule == routing_rules[m]
           IN  SumWeights(rule) = 100 =>
                   \A i \in DOMAIN rule :
                       Cardinality({r \in 1..100 :
                                       PickVariant(rule, 1, 0, r) = i})
                           = rule[i].weight

\* the same with the split's weights required to lie in 0..100
C22_RouteFollowsValidWeights ==
    /\ last_return.op = "route_request" =>
           LET m == last_return.model_name
               r == last_return.random_value
               rule == Get(last_return.pre_rules, m, <<>>)
           IN  IF rule = <<>>
               THEN /\ last_return.variant = "default"
                    /\ request_counts = last_return.pre_counts
               ELSE SumWeights(rule) = 100 =>
                        \E i \in DOMAIN rule :
                            /\ last_return.variant = rule[i].variant
                            /\ CumulativeWeight(rule, i - 1) < r
                            /\ r <= CumulativeWeight(rule, i)
                            /\ rule[i].weight # 0
                            /\ request_counts =
                                   CountedOnce(m, rule[i].variant)
    /\ \A m \in DOMAIN routing_rules :
           LET rule == routing_rules[m]
           IN  ValidSplit(rule) =>
                   \A i \in DOMAIN rule :
                       Cardinality({r \in 1..100 :
                                       PickVariant(rule, 1, 0, r) = i})
                           = rule[i].weight

\* C23: in every interleaving of route_request and update_traffic_split for
\* a service, a routing decision reads a split exactly as one
\* update_traffic_split call stored it (the complete old or the complete new
\* one) and every variant it can select has a request counter.
C23_RoutingReadsWholeSplit ==
    /\ \A m \in DOMAIN routing_rules :
           /\ routing_rules[m] \in SplitInputs
           /\ m \in DOMAIN request_counts
           /\ Variants(routing_rules[m]) \subseteq DOMAIN request_counts[m]
    /\ last_return.op = "route_request" =>
           LET m == last_return.model_name
               rule == Get(last_return.pre_rules, m, <<>>)
           IN  rule # <<>> =>
                   /\ rule \in SplitInputs
                   /\ last_return.variant \in Variants(rule)
                   /\ last_return.variant \in DOMAIN last_return.pre_counts[m]
                   /\ last_return.variant \in DOMAIN request_counts[m]

\* a request routed under one split, the split replaced by one with a new
\* variant, and a request just routed to that new variant
C23_Witness ==
    /\ last_return.op = "route_request"
    /\ last_return.variant = "c"
    /\ "m1" \in DOMAIN request_counts
    /\ "a" \in DOMAIN request_counts["m1"]
    /\ request_counts["m1"]["a"] > 0
    /\ request_counts["m1"]["c"] > 0

\* the total a get_traffic_stats answer reports, 0 when it reports none
ReportedTotal(stats) == Get(stats, "total_requests", 0)

\* C24: update_traffic_split gives every variant the split newly introduces
\* a request counter at 0 and leaves every counter the service already had
\* unchanged, those of variants absent from the new split included; the
\* total reported by get_traffic_stats never decreases in any step.
C24_UpdateKeepsExistingCounters ==
    [][/\ last_return'.op = "update_traffic_split" =>
              LET m == last_return'.model_name
                  old == Get(request_counts, m, EmptyDict)
                  new == request_counts'[m]
              IN  /\ DOMAIN new =
                         DOMAIN old \cup Variants(last_return'.traffic_split)
                  /\ \A v \in DOMAIN old : new[v] = old[v]
                  /\ \A v \in DOMAIN new \ DOMAIN old : new[v] = 0
                  /\ \A other \in DOMAIN request_counts \ {m} :
                         request_counts'[other] = request_counts[other]
       /\ \A m \in Models :
              ReportedTotal(get_traffic_stats(m)')
                  >= ReportedTotal(get_traffic_stats(m))]_vars

\* requests were counted for "a", and the split just applied drops "a" and
\* introduces "c"
C24_Witness ==
    /\ last_return.op = "update_traffic_split"
    /\ "c" \in Variants(last_return.traffic_split)
    /\ "c" \notin DOMAIN Get(last_return.pre_counts, "m1", EmptyDict)
    /\ "a" \notin Variants(routing_rules["m1"])
    /\ "a" \in DOMAIN request_counts["m1"]
    /\ request_counts["m1"]["a"] > 0
    /\ request_counts["m1"]["c"] = 0
    /\ ReportedTotal(get_traffic_stats("m1")) > 0

\* the elements of a set of rule positions, in increasing order
InOrder(S) ==
    CHOOSE s \in [1..Cardinality(S) -> S] :
        \A i, j \in 1..Cardinality(S) : i < j => s[i] < s[j]

\* C25: validate_deployment runs the four checks in their fixed order
\* whatever earlier checks did: every check that returned is in the report
\* in rule order, every check that failed or raised left one error in rule
\* order (a raising check does not abort the run), and the report is failed
\* if and only if at least one check failed or raised.
C25_ValidationRunsEveryCheck ==
    last_return.op = "validate_deployment" =>
        LET o == last_return.outcomes
            res == last_return.validation_result
            returned == InOrder({i \in DOMAIN o : o[i] # "raised"})
            bad == InOrder({i \in DOMAIN o : o[i] # "passed"})
        IN  /\ DOMAIN o = 1..4
            /\ res.checks = [k \in DOMAIN returned |->
                                validation_rules[returned[k]]]
            /\ res.errors = [k \in DOMAIN bad |->
                                IF o[bad[k]] = "raised"
                                THEN "Validation rule failed"
                                ELSE validation_rules[bad[k]]]
            /\ res.passed <=> (\A i \in DOMAIN o : o[i] = "passed")

\* a run whose first check failed, whose third raised and whose last passed
C25_Witness ==
    /\ last_return.op = "validate_deployment"
    /\ last_return.outcomes = <<"failed", "passed", "raised", "passed">>
    /\ ~last_return.validation_result.passed
    /\ Len(last_return.validation_result.checks) = 3
    /\ Len(last_return.validation_result.errors) = 2

\* everything the router and the blue-green manager hold for a service
ServiceState(model_name) ==
    [split |-> Get(routing_rules, model_name, <<>>),
     counts |-> Get(request_counts, model_name, EmptyDict),
     active_slot |-> Get(active_slots, model_name, "none"),
     registered |-> {heap[deployments[i]] : i \in
                        {j \in DOMAIN deployments :
                            heap[deployments[j]].model_name = model_name}},
     objects |-> {heap[i] : i \in {j \in DOMAIN heap :
                                      heap[j].model_name = model_name}}]

\* the step is one of an operation called for model_name
StepOf(model_name) ==
    \/ \E t \in Tasks :
           /\ tasks'[t] # tasks[t]
           /\ model_name = IF tasks[t].pc = "idle" THEN tasks'[t].model_name
                           ELSE tasks[t].model_name
    \/ /\ last_return'.op = "rollback"
       /\ last_return'.model_name = model_name

\* C26: operations on different services are independent: no step of a
\* deploy_new_version or rollback_deployment for a service changes the split,
\* the request counters, the active-slot pointer or a deployment of another
\* service, in any interleaving.
C26_ServicesAreIndependent ==
    [][\A a, b \in Services :
          (a # b /\ StepOf(a)) => ServiceState(b)' = ServiceState(b)]_vars

\* the step after current_percentage on the progression 5, 10, 25, 50, target
ProgressionStep(current_percentage, target) ==
    IF current_percentage < 5 THEN 5
    ELSE IF current_percentage < 10 THEN 10
    ELSE IF current_percentage < 25 THEN 25
    ELSE IF current_percentage < 50 THEN 50
    ELSE IF current_percentage < target THEN target
    ELSE current_percentage

\* C27: on each proceed decision the release moves to the next step of the
\* progression 5 -> 10 -> 25 -> 50 -> configured target: from 50 on the next
\* percentage is the target itself, and at the target a proceed decision
\* leaves the percentage unchanged.
C27_ProceedFollowsProgression ==
    [][\A l \in DOMAIN loops :
          (Evaluated(l) /\ NewEvaluation(l).decision = "proceed") =>
              LET cur == active_canaries[loops[l].canary_id]
                  current_percentage ==
                      canary_heap[cur].current_traffic_percentage
                  target == canary_heap[cur].config.canary_traffic_percentage
              IN  /\ canary_heap'[cur].current_traffic_percentage =
                         ProgressionStep(current_percentage, target)
                  /\ routing_rules'[canary_heap[cur].config.model_name] =
                         CanarySplit(ProgressionStep(current_percentage,
                                                     target))]_vars

\* candidate <= baseline * (1 + threshold), the values being fractions over
\* one denominator and the threshold a number of ten-thousandths
WithinAbove(candidate, baseline, threshold) ==
    /\ candidate[2] = baseline[2]
    /\ candidate[1] * 10000 <= baseline[1] * (10000 + threshold)

\* candidate >= baseline * (1 - threshold)
WithinBelow(candidate, baseline, threshold) ==
    /\ candidate[2] = baseline[2]
    /\ candidate[1] * 10000 >= baseline[1] * (10000 - threshold)

\* |candidate - baseline| <= threshold
WithinDistance(candidate, baseline, threshold) ==
    /\ candidate[2] = baseline[2]
    /\ Abs(candidate[1] - baseline[1]) * 10000 <= threshold * candidate[2]

\* C28: in every evaluation a criterion passes exactly when: error_rate and
\* response_time, candidate <= baseline * (1 + threshold); user_satisfaction,
\* candidate >= baseline * (1 - threshold); any other criterion,
\* |candidate - baseline| <= threshold. With the single criterion
\* error_rate: 0.05, candidate 0.021 against baseline 0.020 passes, the
\* confidence is 1, the decision proceed and the traffic goes from 5 to 10;
\* candidate 0.05 against baseline 0.02 fails, the confidence is 0, the
\* decision abort and the split becomes canary 0 / baseline 100.
C28_CriteriaPassByDirection ==
    [][\A l \in DOMAIN loops :
          Evaluated(l) =>
              LET e == NewEvaluation(l)
                  cur == active_canaries[loops[l].canary_id]
                  config == canary_heap[cur].config
                  criteria == config.success_criteria
                  candidate ==
                      _get_version_metrics(version_hash[config.canary_version])
                  baseline ==
                      _get_version_metrics(version_hash[config.baseline_version])
              IN  /\ \A i \in DOMAIN criteria :
                         LET c == criteria[i].criterion
                             th == criteria[i].threshold
                         IN  e.criteria_results[i] <=>
                               CASE c \in {"error_rate", "response_time"} ->
                                      WithinAbove(candidate[c], baseline[c], th)
                                 [] c = "user_satisfaction" ->
                                      WithinBelow(candidate[c], baseline[c], th)
                                 [] OTHER ->
                                      WithinDistance(candidate[c], baseline[c],
                                                     th)
                  /\ (/\ criteria = OneCriterion
                      /\ candidate.error_rate = <<21, 1000>>
                      /\ baseline.error_rate = <<20, 1000>>) =>
                         /\ e.criteria_results[1]
                         /\ e.passed_criteria = e.total_criteria
                         /\ e.decision = "proceed"
                         /\ canary_heap[cur].current_traffic_percentage = 5 =>
                                /\ canary_heap'[cur].current_traffic_percentage
                                       = 10
                                /\ routing_rules'[config.model_name] =
                                       Split("canary", 10, "baseline", 90)
                  /\ (/\ criteria = OneCriterion
                      /\ candidate.error_rate = <<50, 1000>>
                      /\ baseline.error_rate = <<20, 1000>>) =>
                         /\ ~e.criteria_results[1]
                         /\ e.passed_criteria = 0
                         /\ e.decision = "abort"
                         /\ routing_rules'[config.model_name] =
                                Split("canary", 0, "baseline", 100)]_vars

\* the first example: one criterion, candidate error rate 0.021 against
\* 0.020, the first evaluation decided proceed and the release is at 10
C28_Witness ==
    /\ version_hash["v2"] = 1
    /\ version_hash["v1"] = 0
    /\ \E i \in DOMAIN canary_heap :
           /\ canary_heap[i].config.success_criteria = OneCriterion
           /\ Len(canary_heap[i].evaluations) = 1
           /\ canary_heap[i].evaluations[1].decision = "proceed"
           /\ canary_heap[i].evaluations[1].criteria_results[1]
           /\ canary_heap[i].current_traffic_percentage = 10
           /\ routing_rules["m1"] = Split("canary", 10, "baseline", 90)

\* the split of shift step number step of the deployment of caller t
StepSplit(t, step) ==
    Split(tasks[t].new_slot, traffic_steps[step],
          _get_opposite_slot(tasks[t].new_slot), 100 - traffic_steps[step])

\* the first shift step is applied once validation passed, and each later
\* one after a healthy check of the step before it, in the order 10, 25, 50,
\* 75, 100; a check that is not healthy ends the call with a failure
ShiftStepsInOrder(t) ==
    LET m == tasks[t].model_name
    IN  /\ (tasks[t].pc = "validating" /\ tasks'[t].pc = "shifting") =>
               /\ tasks'[t].step = 1
               /\ routing_rules'[m] = StepSplit(t, 1)
        /\ (tasks[t].pc = "shifting" /\ tasks'[t] # tasks[t]) =>
               /\ routing_rules[m] = StepSplit(t, tasks[t].step)
               /\ \/ /\ tasks'[t].pc = "shifting"
                     /\ tasks[t].step < Len(traffic_steps)
                     /\ tasks'[t].step = tasks[t].step + 1
                     /\ traffic_steps[tasks'[t].step]
                            > traffic_steps[tasks[t].step]
                     /\ routing_rules'[m] = StepSplit(t, tasks'[t].step)
                  \/ /\ tasks'[t].pc = "idle"
                     /\ DeployReturned("Traffic shift failed")'
                  \/ /\ tasks'[t].pc = "idle"
                     /\ DeployReturned("success")'
                     /\ tasks[t].step = Len(traffic_steps)

\* a step of the call of t changes the active-slot pointer only when the
\* 100% step was applied and its check healthy
FlipsAfterFullShift(t) ==
    LET m == tasks[t].model_name
    IN  (/\ InFlight(t)
         /\ tasks'[t] # tasks[t]
         /\ Get(active_slots', m, "none") # Get(active_slots, m, "none")) =>
            /\ tasks[t].pc = "shifting"
            /\ tasks[t].step = Len(traffic_steps)
            /\ routing_rules[m] = StepSplit(t, Len(traffic_steps))
            /\ DeployReturned("success")'
            /\ active_slots'[m] = tasks[t].new_slot

C29_StepsOnly ==
    [][\A t \in Tasks : ShiftStepsInOrder(t)]_vars

\* C30: deploy_new_version creates the new deployment in status Staging in
\* the slot that is not marked active for the service when the call is made,
\* and in the first slot, blue, when the service has no active slot yet.
C30_NewDeploymentTakesInactiveSlot ==
    [][\A t \in Tasks :
          (tasks[t].pc = "deploying" /\ tasks'[t].pc = "validating") =>
              LET d == heap'[tasks'[t].deployment]
              IN  /\ d.status = STAGING
                  /\ d.model_name = tasks[t].model_name
                  /\ d.slot = IF tasks[t].pre_active = "none" THEN BLUE
                              ELSE _get_opposite_slot(tasks[t].pre_active)]_vars

\* the same with the first deployment of a service going to green
C30_FirstDeploymentTakesGreen ==
    [][\A t \in Tasks :
          (tasks[t].pc = "deploying" /\ tasks'[t].pc = "validating") =>
              LET d == heap'[tasks'[t].deployment]
              IN  /\ d.status = STAGING
                  /\ d.model_name = tasks[t].model_name
                  /\ d.slot = IF tasks[t].pre_active = "none" THEN GREEN
                              ELSE _get_opposite_slot(tasks[t].pre_active)]_vars

\* C31: a deployment's status goes Staging -> Transitioning -> Active, or to
\* Failed on an error: while its gradual traffic shift is in progress the
\* deployment is Transitioning, and it is Active once the call that
\* finalized the switch has returned success.
C31_ShiftingDeploymentIsTransitioning ==
    /\ \A t \in Tasks :
           tasks[t].pc = "shifting" =>
               heap[tasks[t].deployment].status = TRANSITIONING
    /\ (last_return.op = "deploy" /\ last_return.result = "success") =>
           heap[last_return.deployment].status = ACTIVE

C33_FailedIsTerminal ==
    [][/\ \A d \in DOMAIN heap :
              heap[d].status = FAILED => heap'[d].status = FAILED
       /\ (last_return'.op = "rollback" /\ last_return'.result = "success") =>
              heap[last_return'.deployment].status # FAILED]_vars

\* the registered deployments of a model that are Active
ActiveDeploymentsOf(model_name) ==
    {d \in DeploymentsOf(model_name) : heap[d].status = ACTIVE}

\* C34: in every reachable state, whatever the interleaving of
\* deploy_new_version and rollback_deployment calls, a service has at most
\* one Active deployment and every Active deployment is in the slot the
\* service's active-slot pointer names.
C34_OneActiveInPointedSlot ==
    \A m \in Models :
        /\ Cardinality(ActiveDeploymentsOf(m)) <= 1
        /\ \A d \in ActiveDeploymentsOf(m) :
               /\ m \in DOMAIN active_slots
               /\ heap[d].slot = active_slots[m]

\* two deployments succeeded and the service was rolled back: the earlier
\* deployment is the Active one, in the slot the pointer names
C34_Witness ==
    /\ last_return.op = "rollback"
    /\ last_return.result = "success"
    /\ Cardinality(DeploymentsOf("m1")) = 2
    /\ \E d \in DeploymentsOf("m1") :
           /\ ActiveDeploymentsOf("m1") = {d}
           /\ heap[d].slot = active_slots["m1"]
           /\ \A x \in DeploymentsOf("m1") \ {d} : heap[x].status = INACTIVE

\* C35: in every reachable state the split of a service gives a positive
\* weight only to a slot in which the service has a registered deployment,
\* the rollout of the service's first deployment included.
C35_WeightOnlyOnDeployedSlots ==
    \A m \in DOMAIN routing_rules :
        \A i \in DOMAIN routing_rules[m] :
            routing_rules[m][i].weight > 0 =>
                \E d \in DeploymentsOf(m) :
                    heap[d].slot = routing_rules[m][i].variant

\* the weight the split of model_name gives to the variant "canary" (none
\* when the split has no such variant)
CanaryWeight(model_name) ==
    LET split == Get(routing_rules, model_name, <<>>)
    IN  IF "canary" \in Variants(split) THEN Weights(split)["canary"]
        ELSE "none"

\* C36: while a canary release is Running, the weight of the variant
\* "canary" in the live split of its service equals the current traffic
\* percentage the release records, whatever other releases and operations
\* on the service do.
C36_RunningReleaseOwnsSplit ==
    \A id \in DOMAIN active_canaries :
        LET info == canary_heap[active_canaries[id]]
        IN  info.status = RUNNING =>
                CanaryWeight(info.config.model_name)
                    = info.current_traffic_percentage

\* a release that is Completed or Aborted
Terminal(i) == canary_heap[i].status \in {COMPLETED, ABORTED}

\* C37: Completed and Aborted are absorbing: once a release has either
\* status no step changes its status, adds an evaluation to it or changes
\* the traffic percentage applied for it.
C37_TerminalReleaseIsFrozen ==
    [][\A i \in DOMAIN canary_heap :
          Terminal(i) =>
              /\ canary_heap'[i].status = canary_heap[i].status
              /\ canary_heap'[i].evaluations = canary_heap[i].evaluations
              /\ canary_heap'[i].current_traffic_percentage
                     = canary_heap[i].current_traffic_percentage]_vars

\* C38: whenever no deploy_new_version call is in flight (a rollback never
\* is, between two steps), the traffic_percentage of every registered
\* deployment agrees with the live split: 100 for the Active deployment and
\* 0 for every other one.
C38_TrafficPercentageMatchesSplit ==
    (\A t \in Tasks : ~InFlight(t)) =>
        \A d \in Registered(deployments) :
            heap[d].traffic_percentage =
                IF heap[d].status = ACTIVE THEN 100 ELSE 0

\* C39: for a release that is terminal, get_canary_status reports as
\* current traffic percentage the canary weight the release last applied to
\* the split: 0 once it is Aborted and 100 once it is Completed with
\* auto_promote set.
C39_StatusReportsLastAppliedWeight ==
    \A id \in DOMAIN active_canaries :
        LET info == canary_heap[active_canaries[id]]
            reported == get_canary_status(id).current_traffic_percentage
        IN  /\ info.status = ABORTED => reported = 0
            /\ (info.status = COMPLETED /\ info.config.auto_promote) =>
                   reported = 100

\* C40: _make_completion_request ends after at most max_retries + 1 calls of
\* complete (none when that number is not positive), whatever max_retries
\* is: it sleeps for a retry only after an
\* Azure/HTTP error of the call just made, a response it returns is that of
\* the call just made, and an exception it raises is the one the last call
\* of complete raised, an Azure/HTTP error only when all max_retries + 1
\* calls were made
C40_RetryLoopEndsWithLastOutcome ==
    /\ request.calls <= Max2(0, request.max_retries + 1)
    /\ request.pc = "sleep" =>
           /\ Retryable(request.last_exception.class)
           /\ request.last_exception.call = request.calls
    /\ request.pc = "returned" =>
           request.result = Outcome("ChatCompletions", request.calls)
    /\ request.pc = "raised" =>
           /\ request.calls >= 1
           /\ request.result.class \in ExceptionClasses
           /\ request.result.call = request.calls
           /\ Retryable(request.result.class) =>
                  request.calls = request.max_retries + 1

====
